---- MODULE Spec2Model ----
(***************************************************************************)
(* A model of the Blinkit scraping / enrichment / upload scripts:          *)
(*   blinkit_batch_scraper.py   (registry, OCR batching, barcode scan,     *)
(*                               payload, upload, run_pipeline)            *)
(*   blinkit_urls_uploader.py   (load_urls)                                *)
(*                                                                         *)
(* Strings are sequences of one-character strings, so that str.strip()     *)
(* and str.lower() are computed and not assumed.  Python's None is the     *)
(* value None below, a non-string object (an int in a list of URLs) is     *)
(* NonStr.  A multi-character element of a string stands for a literal     *)
(* piece of text that holds no white space at its ends.                    *)
(***************************************************************************)
EXTENDS Integers, Sequences, FiniteSets, TLC

VARIABLES
    \* ---- one call of upload_product_to_nutrisnap
    u_pc,          \* "call" before the call, "returned" after it
    u_product,     \* the product record passed in
    u_registry0,   \* the registry as it was when the call was made
    u_dry_run,     \* the dry_run argument
    u_registry,    \* the registry object (mutated in place by the call)
    u_posts,       \* the payloads POSTed to NUTRISNAP_UPLOAD_URL, in order
    u_response,    \* what the POST met: <<>> when none was made, <<outcome>> otherwise
    u_ret,         \* the value returned: <<>> before the return, <<b>> after
    \* ---- one call of run_ocr_on_images
    o_pc,          \* "idle", "start", "loop", "singles", "done"
    o_image_urls,  \* the image_urls argument
    o_unique_urls, \* unique_urls
    o_idx,         \* idx
    o_j,           \* position of the fallback for-loop within the batch
    o_texts,       \* texts
    o_attempt,     \* what the combined attempt of this turn of the loop met
    o_single_text, \* single_text, the last value of _run_single_image_ocr
    o_calls,       \* the OCR attempts made, in order
    o_tmp_files,   \* composite temp files created and still on disk
    o_detail,      \* detail_data of the product the caller enriches
    \* ---- de-duplication of a list of URLs, applied once and twice
    d_pc,          \* "start", "once", "twice"
    d_kind,        \* "image_urls" (run_ocr_on_images) or "url_file" (load_urls)
    d_list,        \* the list given
    d_once,        \* dedupe(d_list)
    d_twice,       \* dedupe(dedupe(d_list))
    \* ---- one call of run_barcode_on_images
    b_pc,          \* "idle", "scan", "done"
    b_image_urls,  \* the image_urls argument
    b_pos,         \* how many entries of image_urls the for-loop has taken
    b_seen,        \* seen
    b_scans,       \* <<url, outcome>> of every download started, in order
    b_value,       \* the value returned (None: no barcode found)
    \* ---- one run of main / run_pipeline of blinkit_batch_scraper.py
    p_pc,          \* "idle", "start", "fetch_names", "loop", "barcode", "ocr",
                   \* "upload", "done", "failed"
    p_listing,     \* what scrape_listing meets: "error" or the products scraped
    p_dry_run,     \* args.dry_run
    p_max_products,  \* args.max_products
    p_products,    \* products
    p_i,           \* products of the list the for-loop is done with
    p_existing_names,  \* existing_names, the registry
    p_record,      \* product_record of the product in hand
    p_barcode_value,   \* barcode_value
    p_combined_results,  \* combined_results
    p_events,      \* <<product, what>>: detail scrapes, barcode scans, OCR runs, POSTs
    p_posts,       \* <<product, outcome>> of every POST issued, in order
    p_report,      \* the report file: <<>> until written, then <<its products>>
    p_exit,        \* main's return value: <<>> while it runs, then <<code>>
    \* ---- one call of a function that keeps no state between calls
    c_pc,          \* "idle", "call", "returned"
    c_in,          \* the arguments, and what the calls it makes meet
    c_out,         \* <<>> until it returns, then <<what it returned or raised>>
    \* ---- one run of main of dedupe_constituents_cleanup.py
    k_pc,          \* "idle", "start", "loop", "update", "delete_goals",
                   \* "delete_constituents", "committed", "rolled_back"
    k_lines,       \* the ID lines of INPUT_FILE, as read_id_groups returns them
    k_actionable,  \* actionable
    k_protected,   \* protected_primary_ids
    k_existing_ids,  \* existing_ids
    k_idx,         \* groups of actionable the for-loop is done with
    k_duplicate_ids,  \* duplicate_ids of the group in hand
    k_db0,         \* the database when the run began
    k_db,          \* the database as the run's transaction sees it
    k_committed,   \* the database as everybody else sees it
    k_ops,         \* <<group, statement, primary_id, duplicate_ids>> of every
                   \* UPDATE and DELETE executed, in order
    \* ---- one turn of the for-loop of run_pipeline of blinkit_saved_report_uploader.py
    s_pc,          \* "idle", "exists", "barcode", "ocr", "upload", "next"
    s_args,        \* args: force_ocr, force_barcode, dry_run
    s_existing_names,  \* existing_names
    s_loaded,      \* product_record as deserialize_product gave it
    s_record,      \* product_record
    s_calls,       \* <<function, what it returned>> of the calls made, in order
    s_combined_results  \* combined_results

uploadVars ==
    <<u_pc, u_product, u_registry0, u_dry_run, u_registry, u_posts, u_response, u_ret>>

ocrVars ==
    <<o_pc, o_image_urls, o_unique_urls, o_idx, o_j, o_texts, o_attempt, o_single_text,
      o_calls, o_tmp_files, o_detail>>

dedupeVars == <<d_pc, d_kind, d_list, d_once, d_twice>>

barcodeVars == <<b_pc, b_image_urls, b_pos, b_seen, b_scans, b_value>>

pipeVars ==
    <<p_pc, p_listing, p_dry_run, p_max_products, p_products, p_i, p_existing_names,
      p_record, p_barcode_value, p_combined_results, p_events, p_posts, p_report, p_exit>>

callVars == <<c_pc, c_in, c_out>>

cleanupVars ==
    <<k_pc, k_lines, k_actionable, k_protected, k_existing_ids, k_idx, k_duplicate_ids,
      k_db0, k_db, k_committed, k_ops>>

savedVars ==
    <<s_pc, s_args, s_existing_names, s_loaded, s_record, s_calls, s_combined_results>>

vars == <<uploadVars, ocrVars, dedupeVars, barcodeVars, pipeVars, callVars, cleanupVars,
          savedVars>>

\* what a step of one function leaves alone: the state of the others
UploadFrame ==
    UNCHANGED <<ocrVars, dedupeVars, barcodeVars, pipeVars, callVars, cleanupVars, savedVars>>
OcrFrame ==
    UNCHANGED <<uploadVars, dedupeVars, barcodeVars, pipeVars, callVars, cleanupVars, savedVars>>
DedupeFrame ==
    UNCHANGED <<uploadVars, ocrVars, barcodeVars, pipeVars, callVars, cleanupVars, savedVars>>
BarcodeFrame ==
    UNCHANGED <<uploadVars, ocrVars, dedupeVars, pipeVars, callVars, cleanupVars, savedVars>>
PipeFrame ==
    UNCHANGED <<uploadVars, dedupeVars, callVars, cleanupVars, savedVars>>
CallFrame ==
    UNCHANGED <<uploadVars, ocrVars, dedupeVars, barcodeVars, pipeVars, cleanupVars, savedVars>>

CleanupFrame ==
    UNCHANGED <<uploadVars, ocrVars, dedupeVars, barcodeVars, pipeVars, callVars, savedVars>>

SavedFrame ==
    UNCHANGED <<uploadVars, ocrVars, dedupeVars, barcodeVars, pipeVars, callVars, cleanupVars>>

\* no single function call is under way
IdleCall ==
    /\ c_pc = "idle"
    /\ c_in = <<>>
    /\ c_out = <<>>

\* no run of dedupe_constituents_cleanup.py is under way
IdleCleanup ==
    /\ k_pc = "idle"
    /\ k_lines = <<>>
    /\ k_actionable = <<>>
    /\ k_protected = {}
    /\ k_existing_ids = {}
    /\ k_idx = 0
    /\ k_duplicate_ids = <<>>
    /\ k_db0 = <<>>
    /\ k_db = <<>>
    /\ k_committed = <<>>
    /\ k_ops = <<>>

\* no run of blinkit_saved_report_uploader.py is under way
IdleSaved ==
    /\ s_pc = "idle"
    /\ s_args = <<>>
    /\ s_existing_names = {}
    /\ s_loaded = <<>>
    /\ s_record = <<>>
    /\ s_calls = <<>>
    /\ s_combined_results = <<>>

\* neither of the two is
IdleScripts == IdleCleanup /\ IdleSaved

-----------------------------------------------------------------------------
(* Python values *)

None == <<"None">>
NonStr == <<"NonStr">>

IsStr(v) == v # None /\ v # NonStr

\* Python truthiness of an Optional[str]
Truthy(v) == IsStr(v) /\ v # <<>>

IsSpace(c) == c \in {" ", "\n"}

RECURSIVE lstrip(_)
lstrip(s) ==
    IF s = <<>> THEN <<>>
    ELSE IF IsSpace(Head(s)) THEN lstrip(Tail(s)) ELSE s

RECURSIVE rstrip(_)
rstrip(s) ==
    IF s = <<>> THEN <<>>
    ELSE IF IsSpace(s[Len(s)]) THEN rstrip(SubSeq(s, 1, Len(s) - 1)) ELSE s

\* str.strip()
strip(s) == rstrip(lstrip(s))

lowerChar(c) ==
    CASE c = "A" -> "a"
      [] c = "B" -> "b"
      [] OTHER -> c

\* str.lower()
lower(s) == [i \in 1..Len(s) |-> lowerChar(s[i])]

\* the elements of a sequence
Range(s) == {s[i] : i \in 1..Len(s)}

\* sep.join(parts)
RECURSIVE join(_, _)
join(sep, parts) ==
    IF parts = <<>> THEN <<>>
    ELSE IF Len(parts) = 1 THEN parts[1]
    ELSE parts[1] \o sep \o join(sep, Tail(parts))

-----------------------------------------------------------------------------
(* Product records: blinkit_batch_scraper.py *)

MakeDetail(detail_name, hero_images, nutrition, error) ==
    [ detail_name |-> detail_name,
      hero_images |-> hero_images,
      nutrition |-> nutrition,
      ingredients |-> None,
      description |-> None,
      fssai_license |-> None,
      ocr_text |-> None,
      barcode |-> None,
      error |-> error ]

MakeProduct(name, image, link, detail) ==
    [ listing_name |-> name,
      listing_image |-> image,
      product_link |-> link,
      detail |-> detail ]

\* no call of upload_product_to_nutrisnap is under way
IdleUpload ==
    /\ u_pc = "idle"
    /\ u_product = None
    /\ u_registry0 = {}
    /\ u_registry = {}
    /\ u_dry_run = FALSE
    /\ u_posts = <<>>
    /\ u_response = <<>>
    /\ u_ret = <<>>

-----------------------------------------------------------------------------
(* The deduplication registry: blinkit_batch_scraper.py *)

normalize_name(value) ==
    IF value = None THEN None
    ELSE LET normalized == lower(strip(value))
         IN  IF normalized = <<>> THEN None ELSE normalized

candidate_product_names(product) ==
    LET norm(name) == normalize_name(IF IsStr(name) THEN name ELSE None)
        keep(name) == IF norm(name) # None THEN <<norm(name)>> ELSE <<>>
    IN  keep(product.listing_name) \o keep(product.detail.detail_name)

\* a bug the claims must exclude: the listing name is added as it is, and
\* the detail name is not added
record_listing_name_as_it_is(product, registry) ==
    IF IsStr(product.listing_name) THEN registry \cup {product.listing_name} ELSE registry

record_uploaded_product_names(product, registry) ==
    registry \cup Range(candidate_product_names(product))

\* a bug the claims must exclude: only the first candidate is looked up
exists_by_first_candidate_only(product, registry) ==
    LET candidates == candidate_product_names(product)
    IN  IF candidates = <<>> THEN FALSE
        ELSE candidates[1] \in registry

product_exists_in_registry(product, registry) ==
    LET candidates == candidate_product_names(product)
    IN  IF candidates = <<>> THEN FALSE
        ELSE \E i \in 1..Len(candidates) : candidates[i] \in registry

-----------------------------------------------------------------------------
(* The upload payload: blinkit_batch_scraper.py *)

\* d[label] = value on a dict kept as a sequence of <<key, value>> in
\* insertion order: an existing key keeps its place and takes the new value.
\* a bug the claims must exclude: a label met again keeps its first value
dict_set_keeps_first_value(d, k, v) ==
    IF \E i \in 1..Len(d) : d[i][1] = k
    THEN d
    ELSE Append(d, <<k, v>>)

\* nutrition[label] = value on a dict kept as its items in insertion order
dict_set(d, k, v) ==
    IF \E i \in 1..Len(d) : d[i][1] = k
    THEN [i \in 1..Len(d) |-> IF d[i][1] = k THEN <<k, v>> ELSE d[i]]
    ELSE Append(d, <<k, v>>)

\* a bug the claims must exclude: only the label is asked to be non-empty
RECURSIVE nutrition_loop_keeps_empty_values(_, _)
nutrition_loop_keeps_empty_values(entries, nutrition) ==
    IF entries = <<>> THEN nutrition
    ELSE LET label == entries[1][1]
             value == entries[1][2]
         IN  IF ~Truthy(label)
             THEN nutrition_loop_keeps_empty_values(Tail(entries), nutrition)
             ELSE nutrition_loop_keeps_empty_values(Tail(entries),
                                                    dict_set(nutrition, label, value))

RECURSIVE nutrition_loop(_, _)
nutrition_loop(entries, nutrition) ==
    IF entries = <<>> THEN nutrition
    ELSE LET label == entries[1][1]
             value == entries[1][2]
         IN  IF ~Truthy(label) \/ ~Truthy(value)
             THEN nutrition_loop(Tail(entries), nutrition)
             ELSE nutrition_loop(Tail(entries), dict_set(nutrition, label, value))

\* None, or a non-empty dict
nutrition_pairs_to_dict(entries) ==
    IF entries = None \/ entries = <<>> THEN None
    ELSE LET nutrition == nutrition_loop(entries, <<>>)
         IN  IF nutrition = <<>> THEN None ELSE nutrition

IsSep(c) == c \in {",", "\n", ";"}

\* re.split(r"[,\n;]+", s): the pieces between runs of separators
RECURSIVE re_split(_, _, _)
re_split(s, cur, prevSep) ==
    IF s = <<>> THEN <<cur>>
    ELSE IF IsSep(Head(s))
         THEN IF prevSep THEN re_split(Tail(s), cur, TRUE)
              ELSE <<cur>> \o re_split(Tail(s), <<>>, TRUE)
         ELSE re_split(Tail(s), Append(cur, Head(s)), FALSE)

normalize_ingredients(ingredients) ==
    IF ~Truthy(ingredients) THEN None
    ELSE LET pieces == re_split(ingredients, <<>>, FALSE)
             parts == SelectSeq([i \in 1..Len(pieces) |-> strip(pieces[i])],
                                LAMBDA p : p # <<>>)
         IN  IF parts = <<>> THEN None ELSE parts

\* a bug the claims must exclude: a section is left out only when its field
\* is None, an empty field gives its bare label
additional_text_with_empty_sections(description, ingredients_raw, fssai_license, ocr_text, barcode) ==
    LET additional_parts ==
            (IF description # None THEN <<description>> ELSE <<>>)
            \o (IF ingredients_raw # None
                THEN <<<<"Ingredients:", " ">> \o ingredients_raw>> ELSE <<>>)
            \o (IF fssai_license # None
                THEN <<<<"FSSAI License:", " ">> \o fssai_license>> ELSE <<>>)
            \o (IF ocr_text # None
                THEN <<<<"OCR Text:", "\n">> \o ocr_text>> ELSE <<>>)
            \o (IF barcode # None
                THEN <<<<"Barcode:", " ">> \o barcode>> ELSE <<>>)
    IN  IF additional_parts # <<>> THEN join(<<"\n">>, additional_parts) ELSE None

\* lines 434-445
additional_text_of(description, ingredients_raw, fssai_license, ocr_text, barcode) ==
    LET additional_parts ==
            (IF Truthy(description) THEN <<description>> ELSE <<>>)
            \o (IF Truthy(ingredients_raw)
                THEN <<<<"Ingredients:", " ">> \o ingredients_raw>> ELSE <<>>)
            \o (IF Truthy(fssai_license)
                THEN <<<<"FSSAI License:", " ">> \o fssai_license>> ELSE <<>>)
            \o (IF Truthy(ocr_text)
                THEN <<<<"OCR Text:", "\n">> \o ocr_text>> ELSE <<>>)
            \o (IF Truthy(barcode)
                THEN <<<<"Barcode:", " ">> \o barcode>> ELSE <<>>)
    IN  IF additional_parts # <<>> THEN join(<<"\n">>, additional_parts) ELSE None

\* <<>> for "no payload" (None), <<payload>> otherwise
build_upload_payload(product) ==
    LET detail_result == product.detail
        nutrition == nutrition_pairs_to_dict(detail_result.nutrition)
        ingredients_raw == detail_result.ingredients
        ingredients_list == normalize_ingredients(ingredients_raw)
        description == detail_result.description
        fssai_license == detail_result.fssai_license
        ocr_text == detail_result.ocr_text
        barcode == detail_result.barcode
        product_link == product.product_link
        listing_urls == IF Truthy(product_link) THEN <<product_link>> ELSE <<>>
        additional_text ==
            additional_text_of(description, ingredients_raw, fssai_license, ocr_text, barcode)
    IN  IF nutrition = None \/ nutrition = <<>> THEN <<>>
        ELSE << [ listingName |-> product.listing_name,
                  detailName |-> detail_result.detail_name,
                  listingImage |-> product.listing_image,
                  productLink |-> product.product_link,
                  listingUrls |-> listing_urls,
                  heroImages |-> IF detail_result.hero_images = None THEN <<>>
                                 ELSE detail_result.hero_images,
                  nutrition |-> nutrition,
                  barcode |-> barcode,
                  ingredients |-> ingredients_list,
                  description |-> description,
                  fssaiId |-> fssai_license,
                  additionalText |-> additional_text,
                  use_llm |-> TRUE ] >>

-----------------------------------------------------------------------------
(* upload_product_to_nutrisnap: blinkit_batch_scraper.py                    *)
(* post is what session.post + raise_for_status do when they are reached:  *)
(* "ok" (a 2xx answer), "http_error" (raise_for_status raises HTTPError),   *)
(* "network_error" (ConnectionError / Timeout); both errors are            *)
(* requests.RequestException.  The result is what the call did:            *)
(* the payloads it POSTed, the registry after it, the value returned.      *)

PostOutcomes == {"ok", "http_error", "network_error"}

\* a bug the claims must exclude: dry_run is not looked at
upload_ignores_dry_run(product, registry, dry_run, post) ==
    IF product_exists_in_registry(product, registry)
    THEN [posted |-> <<>>, registry |-> registry, ret |-> FALSE]
    ELSE LET payload == build_upload_payload(product)
         IN  IF payload = <<>>
             THEN [posted |-> <<>>, registry |-> registry, ret |-> FALSE]
             ELSE IF post = "ok"
                  THEN [posted |-> payload,
                        registry |-> record_uploaded_product_names(product, registry),
                        ret |-> TRUE]
                  ELSE [posted |-> payload, registry |-> registry, ret |-> FALSE]

\* a bug the claims must exclude: only the listing name is recorded
upload_records_listing_name_only(product, registry, dry_run, post) ==
    IF product_exists_in_registry(product, registry)
    THEN [posted |-> <<>>, registry |-> registry, ret |-> FALSE]
    ELSE LET payload == build_upload_payload(product)
         IN  IF payload = <<>>
             THEN [posted |-> <<>>, registry |-> registry, ret |-> FALSE]
             ELSE IF dry_run
                  THEN [posted |-> <<>>, registry |-> registry, ret |-> FALSE]
                  ELSE IF post = "ok"
                       THEN [posted |-> payload,
                             registry |-> registry \cup
                                 { n \in Range(candidate_product_names(product)) :
                                     n = candidate_product_names(product)[1] },
                             ret |-> TRUE]
                       ELSE [posted |-> payload, registry |-> registry, ret |-> FALSE]

\* a bug the claims must exclude: the names are recorded before the POST
upload_records_before_post(product, registry, dry_run, post) ==
    IF product_exists_in_registry(product, registry)
    THEN [posted |-> <<>>, registry |-> registry, ret |-> FALSE]
    ELSE LET payload == build_upload_payload(product)
         IN  IF payload = <<>>
             THEN [posted |-> <<>>, registry |-> registry, ret |-> FALSE]
             ELSE IF dry_run
                  THEN [posted |-> <<>>, registry |-> registry, ret |-> FALSE]
                  ELSE [posted |-> payload,
                        registry |-> record_uploaded_product_names(product, registry),
                        ret |-> (post = "ok")]

\* a bug the claims must exclude: a failed POST is sent a second time
upload_retries_failed_post(product, registry, dry_run, post) ==
    IF product_exists_in_registry(product, registry)
    THEN [posted |-> <<>>, registry |-> registry, ret |-> FALSE]
    ELSE LET payload == build_upload_payload(product)
         IN  IF payload = <<>>
             THEN [posted |-> <<>>, registry |-> registry, ret |-> FALSE]
             ELSE IF dry_run
                  THEN [posted |-> <<>>, registry |-> registry, ret |-> FALSE]
                  ELSE IF post = "ok"
                       THEN [posted |-> payload,
                             registry |-> record_uploaded_product_names(product, registry),
                             ret |-> TRUE]
                       ELSE [posted |-> payload \o payload, registry |-> registry,
                             ret |-> FALSE]

upload_product_to_nutrisnap(product, registry, dry_run, post) ==
    IF product_exists_in_registry(product, registry)
    THEN [posted |-> <<>>, registry |-> registry, ret |-> FALSE]
    ELSE LET payload == build_upload_payload(product)
         IN  IF payload = <<>>
             THEN [posted |-> <<>>, registry |-> registry, ret |-> FALSE]
             ELSE IF dry_run
                  THEN [posted |-> <<>>, registry |-> registry, ret |-> FALSE]
                  ELSE IF post = "ok"
                       THEN [posted |-> payload,
                             registry |-> record_uploaded_product_names(product, registry),
                             ret |-> TRUE]
                       ELSE [posted |-> payload, registry |-> registry, ret |-> FALSE]

-----------------------------------------------------------------------------
(* URL de-duplication: the loop at the head of run_ocr_on_images and of    *)
(* run_barcode_on_images (blinkit_batch_scraper.py).                       *)

\* a bug the claims must exclude: the URL is kept as given, not as stripped
RECURSIVE dedupe_loop_keeps_raw(_, _, _)
dedupe_loop_keeps_raw(image_urls, seen, unique_urls) ==
    IF image_urls = <<>> THEN unique_urls
    ELSE LET url == Head(image_urls)
         IN  IF ~Truthy(url)
             THEN dedupe_loop_keeps_raw(Tail(image_urls), seen, unique_urls)
             ELSE LET normalized == strip(url)
                  IN  IF normalized = <<>> \/ normalized \in seen
                      THEN dedupe_loop_keeps_raw(Tail(image_urls), seen, unique_urls)
                      ELSE dedupe_loop_keeps_raw(Tail(image_urls), seen \cup {normalized},
                                                 Append(unique_urls, url))

RECURSIVE dedupe_loop(_, _, _)
dedupe_loop(image_urls, seen, unique_urls) ==
    IF image_urls = <<>> THEN unique_urls
    ELSE LET url == Head(image_urls)
         IN  IF ~Truthy(url)
             THEN dedupe_loop(Tail(image_urls), seen, unique_urls)
             ELSE LET normalized == strip(url)
                  IN  IF normalized = <<>> \/ normalized \in seen
                      THEN dedupe_loop(Tail(image_urls), seen, unique_urls)
                      ELSE dedupe_loop(Tail(image_urls), seen \cup {normalized},
                                       Append(unique_urls, normalized))

dedupe_urls(image_urls) == dedupe_loop(image_urls, {}, <<>>)

\* load_urls (blinkit_urls_uploader.py) on the lines of the file: blank
\* lines and lines that start with # are dropped
RECURSIVE load_urls_loop(_, _, _)
load_urls_loop(lines, seen, urls) ==
    IF lines = <<>> THEN urls
    ELSE LET stripped == strip(Head(lines))
         IN  IF stripped = <<>> \/ Head(stripped) = "#"
             THEN load_urls_loop(Tail(lines), seen, urls)
             ELSE IF stripped \in seen
                  THEN load_urls_loop(Tail(lines), seen, urls)
                  ELSE load_urls_loop(Tail(lines), seen \cup {stripped},
                                      Append(urls, stripped))

load_urls(lines) == load_urls_loop(lines, {}, <<>>)

IdleDedupe ==
    /\ d_pc = "idle"
    /\ d_kind = "image_urls"
    /\ d_list = <<>>
    /\ d_once = <<>>
    /\ d_twice = <<>>

-----------------------------------------------------------------------------
(* run_ocr_on_images: blinkit_batch_scraper.py                             *)

OCR_BATCH_SIZE == 4

Min(a, b) == IF a < b THEN a ELSE b

\* a bug the claims must exclude: the slice is one short
ocr_batch_one_short(unique_urls, idx) ==
    SubSeq(unique_urls, idx + 1, Min(idx + OCR_BATCH_SIZE - 1, Len(unique_urls)))

\* unique_urls[idx : idx + OCR_BATCH_SIZE], idx counted from 0
ocr_batch(unique_urls, idx) ==
    SubSeq(unique_urls, idx + 1, Min(idx + OCR_BATCH_SIZE, Len(unique_urls)))

\* What the text recognizer can hand back for an image: nothing, white
\* space only, the text of the image, the text followed by a line break.
RawTexts(content) == { <<>>, <<"\n">>, content, content \o <<"\n">> }

RECURSIVE Flatten(_)
Flatten(ss) == IF ss = <<>> THEN <<>> ELSE Head(ss) \o Flatten(Tail(ss))

\* the text printed on one image, on the composite of a batch
TextOfImage(url) == <<"text of">> \o url
TextOfComposite(batch) == <<"text of composite">> \o Flatten(batch)

\* The try block of a full batch (lines 343-363).  kind says how far it got:
\*   "build_error"  _build_combined_image raised before the temp file exists
\*                  (download_image or stack_vertically)
\*   "save_error"   combined.save raised: the temp file exists, its path
\*                  never reached combined_path
\*   "ocr_error"    ocr.detect_text raised
\*   "text"         ocr.detect_text returned raw
\* unlink_ok: whether combined_path.unlink succeeds in the finally block.
CombinedOutcomes(batch) ==
    [kind : {"build_error", "save_error", "ocr_error"}, raw : {<<>>}, unlink_ok : BOOLEAN]
    \cup [kind : {"text"}, raw : RawTexts(TextOfComposite(batch)), unlink_ok : BOOLEAN]

\* _run_single_image_ocr (lines 298-308): None on any exception and on
\* text that is empty once stripped, the stripped text otherwise
SingleOutcomes(url) ==
    [kind : {"error"}, raw : {<<>>}] \cup [kind : {"text"}, raw : RawTexts(TextOfImage(url))]

run_single_image_ocr(out) ==
    IF out.kind = "error" THEN None
    ELSE LET cleaned == strip(out.raw)
         IN  IF cleaned = <<>> THEN None ELSE cleaned

\* a bug the claims must exclude: a recognition failure passes for a result
combined_accepted_or_ocr_error(out) ==
    \/ out.kind = "text" /\ strip(out.raw) # <<>>
    \/ out.kind = "ocr_error"

\* the combined attempt is accepted: cleaned is non-empty (line 347)
combined_accepted(out) == out.kind = "text" /\ strip(out.raw) # <<>>

\* a bug the claims must exclude: any batch is combined
is_full_batch_any(batch) == Len(batch) >= 1

\* line 338
is_full_batch(batch) == Len(batch) = OCR_BATCH_SIZE

\* a bug the claims must exclude: the texts are joined by one line break
set_ocr_text_one_newline(detail_data, ocr_texts) ==
    IF ocr_texts # <<>>
    THEN [detail_data EXCEPT !.ocr_text = join(<<"\n">>, ocr_texts)]
    ELSE detail_data

\* run_pipeline, lines 600-601: detail_data["ocr_text"] is set only when
\* texts came back (ocr_text None stands for the key being absent)
set_ocr_text(detail_data, ocr_texts) ==
    IF ocr_texts # <<>>
    THEN [detail_data EXCEPT !.ocr_text = join(<<"\n", "\n">>, ocr_texts)]
    ELSE detail_data

NoAttempt == [kind |-> "none", raw |-> <<>>, unlink_ok |-> TRUE]

\* temp files the attempt leaves behind: the one combined.save failed on,
\* and the one whose unlink failed
combined_leftover(out) ==
    CASE out.kind = "build_error" -> 0
      [] out.kind = "save_error" -> 1
      [] OTHER -> IF out.unlink_ok THEN 0 ELSE 1

IdleOcr ==
    /\ o_pc = "idle"
    /\ o_image_urls = <<>>
    /\ o_unique_urls = <<>>
    /\ o_idx = 0
    /\ o_j = 0
    /\ o_texts = <<>>
    /\ o_attempt = NoAttempt
    /\ o_single_text = None
    /\ o_calls = <<>>
    /\ o_tmp_files = 0
    /\ o_detail = None

\* lines 319-333
OcrStart ==
    /\ o_pc = "start"
    /\ o_unique_urls' = dedupe_urls(o_image_urls)
    /\ o_idx' = 0
    /\ o_texts' = <<>>
    /\ o_pc' = "loop"
    /\ UNCHANGED <<o_image_urls, o_j, o_attempt, o_single_text, o_calls, o_tmp_files,
                   o_detail>>
    /\ OcrFrame

\* lines 334-363: a full batch of four, the combined attempt; Outcomes(batch)
\* is what the attempt can meet
OcrCombinedWith(Outcomes(_)) ==
    /\ o_pc = "loop"
    /\ o_idx < Len(o_unique_urls)
    /\ LET batch == ocr_batch(o_unique_urls, o_idx)
       IN  /\ is_full_batch(batch)
           /\ \E out \in Outcomes(batch) :
                /\ o_attempt' = out
                /\ o_calls' = Append(o_calls, <<"combined", batch>>)
                /\ o_tmp_files' = o_tmp_files + combined_leftover(out)
                /\ IF combined_accepted(out)
                   THEN /\ o_texts' = Append(o_texts, strip(out.raw))
                        /\ o_idx' = o_idx + OCR_BATCH_SIZE
                        /\ o_pc' = "loop"
                        /\ o_j' = o_j
                   ELSE /\ o_pc' = "singles"
                        /\ o_j' = 0
                        /\ UNCHANGED <<o_texts, o_idx>>
    /\ UNCHANGED <<o_image_urls, o_unique_urls, o_single_text, o_detail>>
    /\ OcrFrame

\* lines 334-338: a trailing batch of fewer than four goes to the for-loop
OcrPartial ==
    /\ o_pc = "loop"
    /\ o_idx < Len(o_unique_urls)
    /\ ~is_full_batch(ocr_batch(o_unique_urls, o_idx))
    /\ o_pc' = "singles"
    /\ o_j' = 0
    /\ o_attempt' = NoAttempt
    /\ UNCHANGED <<o_image_urls, o_unique_urls, o_idx, o_texts, o_single_text, o_calls,
                   o_tmp_files, o_detail>>
    /\ OcrFrame

\* lines 366-369: one turn of the fallback for-loop; Outcomes(url) is what
\* the recognition of the image can meet
OcrSingleWith(Outcomes(_)) ==
    /\ o_pc = "singles"
    /\ LET batch == ocr_batch(o_unique_urls, o_idx)
       IN  /\ o_j < Len(batch)
           /\ \E out \in Outcomes(batch[o_j + 1]) :
                LET single_text == run_single_image_ocr(out)
                IN  /\ o_single_text' = single_text
                    /\ o_calls' = Append(o_calls, <<"single", batch[o_j + 1]>>)
                    /\ o_texts' = IF single_text # None
                                  THEN Append(o_texts, single_text) ELSE o_texts
    /\ o_j' = o_j + 1
    /\ UNCHANGED <<o_pc, o_image_urls, o_unique_urls, o_idx, o_attempt, o_tmp_files,
                   o_detail>>
    /\ OcrFrame

OcrCombined == OcrCombinedWith(CombinedOutcomes)

OcrSingle == OcrSingleWith(SingleOutcomes)

\* a bug the claims must exclude: after the fallback the index moves on by
\* one URL, so that the next batch overlaps the one just done
OcrAdvanceByOne ==
    /\ o_pc = "singles"
    /\ o_j = Len(ocr_batch(o_unique_urls, o_idx))
    /\ o_idx' = o_idx + 1
    /\ o_pc' = "loop"
    /\ UNCHANGED <<o_image_urls, o_unique_urls, o_j, o_texts, o_attempt, o_single_text,
                   o_calls, o_tmp_files, o_detail>>
    /\ OcrFrame

\* line 370
OcrAdvance ==
    /\ o_pc = "singles"
    /\ o_j = Len(ocr_batch(o_unique_urls, o_idx))
    /\ o_idx' = o_idx + Len(ocr_batch(o_unique_urls, o_idx))
    /\ o_pc' = "loop"
    /\ UNCHANGED <<o_image_urls, o_unique_urls, o_j, o_texts, o_attempt, o_single_text,
                   o_calls, o_tmp_files, o_detail>>
    /\ OcrFrame

\* lines 334, 372: the loop ends, texts is returned
OcrReturn ==
    /\ o_pc = "loop"
    /\ o_idx >= Len(o_unique_urls)
    /\ o_pc' = "done"
    /\ UNCHANGED <<o_image_urls, o_unique_urls, o_idx, o_j, o_texts, o_attempt,
                   o_single_text, o_calls, o_tmp_files, o_detail>>
    /\ OcrFrame


-----------------------------------------------------------------------------
(* run_barcode_on_images and _decode_barcode_from_image:                   *)
(* blinkit_batch_scraper.py                                                *)

BARCODE_ALLOWED_TYPES == {"EAN13", "EAN8", "CODABAR"}

\* a bug the claims must exclude: the symbology is not looked at
RECURSIVE first_value_of_any_type(_)
first_value_of_any_type(results) ==
    IF results = <<>> THEN None
    ELSE LET value == strip(results[1].data)
         IN  IF value # <<>> THEN value ELSE first_value_of_any_type(Tail(results))

\* lines 383-390: the first non-empty value of an allowed symbology
RECURSIVE first_allowed_value(_)
first_allowed_value(results) ==
    IF results = <<>> THEN None
    ELSE IF results[1].type \notin BARCODE_ALLOWED_TYPES
         THEN first_allowed_value(Tail(results))
         ELSE LET value == strip(results[1].data)
              IN  IF value # <<>> THEN value ELSE first_allowed_value(Tail(results))

\* What one download and decode can meet: the download fails, the decoder
\* raises, or the decoder returns its list of symbols.
\* a bug the claims must exclude: the decoder's failure is handed back as
\* if it were the value read
decode_failure_as_value(out) ==
    IF out.kind = "decode_error" THEN <<"decode failed">>
    ELSE first_allowed_value(out.results)

\* _decode_barcode_from_image: None when the decoder raises
decode_barcode_from_image(out) ==
    IF out.kind = "decode_error" THEN None ELSE first_allowed_value(out.results)

Symbol(type, data) == [type |-> type, data |-> data]

\* the payload of a symbol printed on the image at url
CodeOn(type, url) == <<type, "of">> \o url

\* the lists of symbols a decoder can return for the image at url: none; a
\* QR code only; an EAN-13; a QR code, then an EAN-8; a Codabar, then an
\* EAN-13; an EAN-13 whose payload is blank, then a QR code
DecodedSymbols(url) ==
    { <<>>,
      <<Symbol("QRCODE", CodeOn("QRCODE", url))>>,
      <<Symbol("EAN13", CodeOn("EAN13", url))>>,
      <<Symbol("QRCODE", CodeOn("QRCODE", url)), Symbol("EAN8", CodeOn("EAN8", url))>>,
      <<Symbol("CODABAR", CodeOn("CODABAR", url)), Symbol("EAN13", CodeOn("EAN13", url))>>,
      <<Symbol("EAN13", <<" ">>), Symbol("QRCODE", CodeOn("QRCODE", url))>> }

ScanOutcomes(url) ==
    [kind : {"download_error", "decode_error"}, results : {<<>>}]
    \cup [kind : {"decoded"}, results : DecodedSymbols(url)]

IdleBarcode ==
    /\ b_pc = "idle"
    /\ b_image_urls = <<>>
    /\ b_pos = 0
    /\ b_seen = {}
    /\ b_scans = <<>>
    /\ b_value = None

\* the entry the for-loop takes next is skipped (lines 401-405)
barcode_skips(url, seen) ==
    \/ ~Truthy(url)
    \/ strip(url) = <<>>
    \/ strip(url) \in seen

\* lines 400-405: an entry that is no string, blank or seen before
BarcodeSkip ==
    /\ b_pc = "scan"
    /\ b_pos < Len(b_image_urls)
    /\ barcode_skips(b_image_urls[b_pos + 1], b_seen)
    /\ b_pos' = b_pos + 1
    /\ UNCHANGED <<b_pc, b_image_urls, b_seen, b_scans, b_value>>
    /\ BarcodeFrame

\* lines 400-417: a new URL is downloaded and decoded; Outcomes(url) is
\* what the download and the decoder can meet
BarcodeScanWith(Outcomes(_)) ==
    /\ b_pc = "scan"
    /\ b_pos < Len(b_image_urls)
    /\ ~barcode_skips(b_image_urls[b_pos + 1], b_seen)
    /\ LET normalized == strip(b_image_urls[b_pos + 1])
       IN  /\ b_seen' = b_seen \cup {normalized}
           /\ \E out \in Outcomes(normalized) :
                /\ b_scans' = Append(b_scans, <<normalized, out>>)
                /\ LET value == IF out.kind = "download_error" THEN None
                                ELSE decode_barcode_from_image(out)
                   IN  IF value # None
                       THEN /\ b_value' = value
                            /\ b_pc' = "done"
                            /\ b_pos' = b_pos
                       ELSE /\ b_pos' = b_pos + 1
                            /\ UNCHANGED <<b_value, b_pc>>
    /\ UNCHANGED b_image_urls
    /\ BarcodeFrame

BarcodeScan == BarcodeScanWith(ScanOutcomes)

\* lines 419-420: the list is exhausted
BarcodeNotFound ==
    /\ b_pc = "scan"
    /\ b_pos >= Len(b_image_urls)
    /\ b_value' = None
    /\ b_pc' = "done"
    /\ UNCHANGED <<b_image_urls, b_pos, b_seen, b_scans>>
    /\ BarcodeFrame

-----------------------------------------------------------------------------
(* run_pipeline and main: blinkit_batch_scraper.py                         *)

Url(k) == <<"http://img/", ToString(k)>>

SeqsUpTo(S, n) == UNION { [1..k -> S] : k \in 0..n }

Max(a, b) == IF a > b THEN a ELSE b

\* a bug the claims must exclude: the payload is not asked to be a list
fetch_names_without_list_check(resp) ==
    IF resp.kind \in {"unreachable", "http_error", "not_json"} THEN {}
    ELSE { normalize_name(IF IsStr(resp.payload[i]) THEN resp.payload[i] ELSE None) :
             i \in { j \in 1..Len(resp.payload) :
                       normalize_name(IF IsStr(resp.payload[j]) THEN resp.payload[j]
                                      ELSE None) # None } }

\* What the GET of the product names can meet (lines 175-189): the request
\* raises (the endpoint is unreachable), raise_for_status raises (an HTTP
\* error), the body is no JSON, or the body is JSON: a list of entries, or
\* something that is no list (payload: what iterating over it would give).
fetch_existing_product_names(resp) ==
    IF resp.kind \in {"unreachable", "http_error", "not_json"} THEN {}
    ELSE IF resp.kind = "json_list"
         THEN { normalize_name(IF IsStr(resp.payload[i]) THEN resp.payload[i] ELSE None) :
                  i \in { j \in 1..Len(resp.payload) :
                            normalize_name(IF IsStr(resp.payload[j]) THEN resp.payload[j]
                                           ELSE None) # None } }
         ELSE {}

\* lines 205-215
serialize_nutrition_entries(entries) ==
    IF entries = None \/ entries = <<>> THEN <<>>
    ELSE LET kept == SelectSeq(entries, LAMBDA e : Truthy(e[1]) /\ Truthy(e[2]))
         IN  [i \in 1..Len(kept) |-> [label |-> kept[i][1], value |-> kept[i][2]]]

\* lines 218-235
serialize_product_for_json(product) ==
    LET detail_result == product.detail
    IN  [ listing_name |-> product.listing_name,
          listing_image |-> product.listing_image,
          product_link |-> product.product_link,
          detail |->
            [ detail_name |-> detail_result.detail_name,
              hero_images |-> IF detail_result.hero_images = None THEN <<>>
                              ELSE detail_result.hero_images,
              nutrition |-> serialize_nutrition_entries(detail_result.nutrition),
              ingredients |-> detail_result.ingredients,
              description |-> detail_result.description,
              fssai_license |-> detail_result.fssai_license,
              ocr_text |-> detail_result.ocr_text,
              barcode |-> detail_result.barcode,
              error |-> detail_result.error ] ]

\* a bug the claims must exclude: the products that met an error are left
\* out of the report
serialize_products_without_failed(products) ==
    LET kept == SelectSeq(products, LAMBDA product : product.detail.error = None)
    IN  [i \in 1..Len(kept) |-> serialize_product_for_json(kept[i])]

\* line 249
serialize_products(products) ==
    [i \in 1..Len(products) |-> serialize_product_for_json(products[i])]

\* lines 569-577
NoLinkDetail == MakeDetail(None, <<>>, <<>>, <<"No product link from listing scrape.">>)

\* scrape_product_detail, lines 146-155: any exception becomes the error field
FailedDetail == MakeDetail(None, <<>>, <<>>, <<"detail scrape failed">>)

\* lines 594-597
collect_image_urls(image, detail_data) ==
    (IF Truthy(image) THEN <<image>> ELSE <<>>)
        \o (IF detail_data.hero_images = None THEN <<>> ELSE detail_data.hero_images)

\* line 546
truncate_products(products, max_products) ==
    IF max_products = <<>> THEN products
    ELSE SubSeq(products, 1, Min(Max(max_products[1], 0), Len(products)))

\* no run of the pipeline is under way
IdlePipe ==
    /\ p_pc = "idle"
    /\ p_listing = [kind |-> "error", products |-> <<>>]
    /\ p_dry_run = FALSE
    /\ p_max_products = <<>>
    /\ p_products = <<>>
    /\ p_i = 0
    /\ p_existing_names = {}
    /\ p_record = None
    /\ p_barcode_value = None
    /\ p_combined_results = <<>>
    /\ p_events = <<>>
    /\ p_posts = <<>>
    /\ p_report = <<>>
    /\ p_exit = <<>>

\* the locals of a finished call of run_barcode_on_images go away
BarcodeForget ==
    /\ b_pc' = "idle"
    /\ b_image_urls' = <<>>
    /\ b_pos' = 0
    /\ b_seen' = {}
    /\ b_scans' = <<>>
    /\ b_value' = None

\* the locals of a finished call of run_ocr_on_images go away; the temp
\* files it left stay on the disk
OcrForget ==
    /\ o_pc' = "idle"
    /\ o_image_urls' = <<>>
    /\ o_unique_urls' = <<>>
    /\ o_idx' = 0
    /\ o_j' = 0
    /\ o_texts' = <<>>
    /\ o_attempt' = NoAttempt
    /\ o_single_text' = None
    /\ o_calls' = <<>>
    /\ o_detail' = None
    /\ UNCHANGED o_tmp_files

\* lines 536-546, and main's except (lines 619-621) when scrape_listing
\* raises or the listing is empty
PipeScrapeListing ==
    /\ p_pc = "start"
    /\ IF p_listing.kind = "error" \/ p_listing.products = <<>>
       THEN /\ p_pc' = "failed"
            /\ p_exit' = <<1>>
            /\ UNCHANGED p_products
       ELSE /\ p_products' = truncate_products(p_listing.products, p_max_products)
            /\ p_pc' = "fetch_names"
            /\ UNCHANGED p_exit
    /\ UNCHANGED <<p_listing, p_dry_run, p_max_products, p_i, p_existing_names, p_record,
                   p_barcode_value, p_combined_results, p_events, p_posts, p_report>>
    /\ UNCHANGED <<ocrVars, barcodeVars>>
    /\ PipeFrame

\* line 551; Responses is what the GET can meet
PipeFetchNamesWith(Responses) ==
    /\ p_pc = "fetch_names"
    /\ \E resp \in Responses : p_existing_names' = fetch_existing_product_names(resp)
    /\ p_pc' = "loop"
    /\ UNCHANGED <<p_listing, p_dry_run, p_max_products, p_products, p_i, p_record,
                   p_barcode_value, p_combined_results, p_events, p_posts, p_report,
                   p_exit>>
    /\ UNCHANGED <<ocrVars, barcodeVars>>
    /\ PipeFrame

\* lines 555-588: the detail page of the next product; Details is what
\* scrape_product_detail can return
detail_outcomes(link, Details) == IF Truthy(link) THEN Details ELSE {NoLinkDetail}

detail_events(idx, link) == IF Truthy(link) THEN <<<<idx, "detail">>>> ELSE <<>>

\* lines 555-592: the next product is in the registry
PipeProductSkippedWith(Details) ==
    /\ p_pc = "loop"
    /\ p_i < Len(p_products)
    /\ LET name == p_products[p_i + 1][1]
           image == p_products[p_i + 1][2]
           link == p_products[p_i + 1][3]
       IN  \E detail_data \in detail_outcomes(link, Details) :
             LET product_record == MakeProduct(name, image, link, detail_data)
             IN  /\ product_exists_in_registry(product_record, p_existing_names)
                 /\ p_combined_results' = Append(p_combined_results, product_record)
                 /\ p_events' = p_events \o detail_events(p_i + 1, link)
    /\ p_i' = p_i + 1
    /\ UNCHANGED <<p_pc, p_listing, p_dry_run, p_max_products, p_products,
                   p_existing_names, p_record, p_barcode_value, p_posts, p_report, p_exit>>
    /\ UNCHANGED <<ocrVars, barcodeVars>>
    /\ PipeFrame

\* lines 555-598: the next product is not in the registry, the barcode scan
\* of its images is called
PipeProductEnrichWith(Details) ==
    /\ p_pc = "loop"
    /\ p_i < Len(p_products)
    /\ LET name == p_products[p_i + 1][1]
           image == p_products[p_i + 1][2]
           link == p_products[p_i + 1][3]
       IN  \E detail_data \in detail_outcomes(link, Details) :
             LET product_record == MakeProduct(name, image, link, detail_data)
             IN  /\ ~product_exists_in_registry(product_record, p_existing_names)
                 /\ p_record' = product_record
                 /\ b_image_urls' = collect_image_urls(image, detail_data)
                 /\ p_events' = p_events \o detail_events(p_i + 1, link)
                                    \o <<<<p_i + 1, "barcode">>>>
    /\ b_pc' = "scan"
    /\ b_pos' = 0
    /\ b_seen' = {}
    /\ b_scans' = <<>>
    /\ b_value' = None
    /\ p_pc' = "barcode"
    /\ UNCHANGED <<p_listing, p_dry_run, p_max_products, p_products, p_i,
                   p_existing_names, p_barcode_value, p_combined_results, p_posts, p_report,
                   p_exit>>
    /\ UNCHANGED ocrVars
    /\ PipeFrame

\* lines 598-599: run_barcode_on_images has returned, run_ocr_on_images is
\* called on the same list
PipeStartOcr ==
    /\ p_pc = "barcode"
    /\ b_pc = "done"
    /\ p_barcode_value' = b_value
    /\ o_pc' = "start"
    /\ o_image_urls' = b_image_urls
    /\ o_unique_urls' = <<>>
    /\ o_idx' = 0
    /\ o_j' = 0
    /\ o_texts' = <<>>
    /\ o_attempt' = NoAttempt
    /\ o_single_text' = None
    /\ o_calls' = <<>>
    /\ o_detail' = None
    /\ UNCHANGED o_tmp_files
    /\ BarcodeForget
    /\ p_events' = Append(p_events, <<p_i + 1, "ocr">>)
    /\ p_pc' = "ocr"
    /\ UNCHANGED <<p_listing, p_dry_run, p_max_products, p_products, p_i,
                   p_existing_names, p_record, p_combined_results, p_posts, p_report,
                   p_exit>>
    /\ PipeFrame

\* lines 600-605: run_ocr_on_images has returned
PipeStore ==
    /\ p_pc = "ocr"
    /\ o_pc = "done"
    /\ LET with_text == set_ocr_text(p_record.detail, o_texts)
           detail_data == IF Truthy(p_barcode_value)
                          THEN [with_text EXCEPT !.barcode = p_barcode_value]
                          ELSE with_text
           product_record == [p_record EXCEPT !.detail = detail_data]
       IN  /\ p_record' = product_record
           /\ p_combined_results' = Append(p_combined_results, product_record)
    /\ OcrForget
    /\ p_barcode_value' = None
    /\ p_pc' = "upload"
    /\ UNCHANGED <<p_listing, p_dry_run, p_max_products, p_products, p_i,
                   p_existing_names, p_events, p_posts, p_report, p_exit>>
    /\ UNCHANGED barcodeVars
    /\ PipeFrame

\* lines 606-608, and the for-loop goes on to the next product; Posts is
\* what a POST can meet
PipeUploadWith(Posts) ==
    /\ p_pc = "upload"
    /\ \E post \in Posts :
         LET r == upload_product_to_nutrisnap(p_record, p_existing_names, p_dry_run, post)
         IN  /\ p_existing_names' = r.registry
             /\ p_posts' = p_posts \o [k \in 1..Len(r.posted) |-> <<p_i + 1, post>>]
    /\ p_events' = Append(p_events, <<p_i + 1, "upload">>)
    /\ p_record' = None
    /\ p_i' = p_i + 1
    /\ p_pc' = "loop"
    /\ UNCHANGED <<p_listing, p_dry_run, p_max_products, p_products, p_barcode_value,
                   p_combined_results, p_report, p_exit>>
    /\ UNCHANGED <<ocrVars, barcodeVars>>
    /\ PipeFrame

\* a bug the claims must exclude: main returns 1 when a product of the
\* report carries an error
PipeWriteReportCountsProductErrors ==
    /\ p_pc = "loop"
    /\ p_i >= Len(p_products)
    /\ \E written \in BOOLEAN :
         IF written
         THEN /\ p_report' = <<serialize_products(p_combined_results)>>
              /\ p_exit' = IF \E k \in 1..Len(p_combined_results) :
                                  p_combined_results[k].detail.error # None
                           THEN <<1>> ELSE <<0>>
              /\ p_pc' = "done"
         ELSE /\ p_exit' = <<1>>
              /\ p_pc' = "failed"
              /\ UNCHANGED p_report
    /\ UNCHANGED <<p_listing, p_dry_run, p_max_products, p_products, p_i,
                   p_existing_names, p_record, p_barcode_value, p_combined_results,
                   p_events, p_posts>>
    /\ UNCHANGED <<ocrVars, barcodeVars>>
    /\ PipeFrame

\* lines 610-612 and main, lines 617-624: the report is written and main
\* returns 0, or write_json_report raises and main returns 1
PipeWriteReport ==
    /\ p_pc = "loop"
    /\ p_i >= Len(p_products)
    /\ \E written \in BOOLEAN :
         IF written
         THEN /\ p_report' = <<serialize_products(p_combined_results)>>
              /\ p_exit' = <<0>>
              /\ p_pc' = "done"
         ELSE /\ p_exit' = <<1>>
              /\ p_pc' = "failed"
              /\ UNCHANGED p_report
    /\ UNCHANGED <<p_listing, p_dry_run, p_max_products, p_products, p_i,
                   p_existing_names, p_record, p_barcode_value, p_combined_results,
                   p_events, p_posts>>
    /\ UNCHANGED <<ocrVars, barcodeVars>>
    /\ PipeFrame

-----------------------------------------------------------------------------
(* SpecOcr: one product's OCR enrichment, run_ocr_on_images on any list of *)
(* the lists below and the caller's store of the result.                   *)

MaxUrls == 9

BaseUrls(n) == [k \in 1..n |-> Url(k)]

\* lists that de-duplicate to BaseUrls(n): as they are; among entries that
\* are skipped; each URL followed by a padded copy of itself; each URL
\* padded, the plain URLs repeated after them
OcrInputs ==
    UNION { { BaseUrls(n),
              <<None, <<>>>> \o BaseUrls(n) \o <<<<" ">>, NonStr>>,
              Flatten([k \in 1..n |-> <<Url(k), <<" ">> \o Url(k)>>]),
              [k \in 1..n |-> <<" ">> \o Url(k) \o <<"\n">>] \o BaseUrls(n) }
            : n \in 0..MaxUrls }

InitOcr ==
    /\ IdleScripts
    /\ IdlePipe
    /\ IdleCall
    /\ IdleUpload
    /\ IdleDedupe
    /\ IdleBarcode
    /\ o_pc = "start"
    /\ o_image_urls \in OcrInputs
    /\ o_unique_urls = <<>>
    /\ o_idx = 0
    /\ o_j = 0
    /\ o_texts = <<>>
    /\ o_attempt = NoAttempt
    /\ o_single_text = None
    /\ o_calls = <<>>
    /\ o_tmp_files = 0
    /\ o_detail = MakeDetail(None, o_image_urls, <<>>, None)

\* run_pipeline, lines 599-601
OcrStore ==
    /\ o_pc = "done"
    /\ o_detail' = set_ocr_text(o_detail, o_texts)
    /\ o_pc' = "stored"
    /\ UNCHANGED <<o_image_urls, o_unique_urls, o_idx, o_j, o_texts, o_attempt,
                   o_single_text, o_calls, o_tmp_files>>
    /\ OcrFrame

NextOcr ==
    \/ OcrStart
    \/ OcrCombined
    \/ OcrPartial
    \/ OcrSingle
    \/ OcrAdvance
    \/ OcrReturn
    \/ OcrStore

SpecOcr == InitOcr /\ [][NextOcr]_vars

(* What the claims on run_ocr_on_images speak of *)

OcrN == Len(o_unique_urls)

OcrReturned == o_pc \in {"done", "stored"}

\* the k-th consecutive group of four unique URLs, k counted from 0
BatchOfFour(k) == SubSeq(o_unique_urls, 4 * k + 1, 4 * k + 4)

\* the URLs after the last group of four
TrailingUrls == { o_unique_urls[i] : i \in (4 * (OcrN \div 4) + 1)..OcrN }

CombinedAttempts == { i \in 1..Len(o_calls) : o_calls[i][1] = "combined" }

SingleAttempts == { i \in 1..Len(o_calls) : o_calls[i][1] = "single" }

SingleAttemptsOn(urls) == { i \in SingleAttempts : o_calls[i][2] \in urls }

\* the combined text of group k was accepted
BatchAccepted(k) == TextOfComposite(BatchOfFour(k)) \in Range(o_texts)

\* C5: over N unique URLs run_ocr_on_images makes exactly floor(N/4)
\* combined attempts, per group of four no per-image attempt when the
\* combined text was accepted and otherwise per-image attempts within 0..4
\* (the code makes all four), and exactly N mod 4 per-image attempts for
\* the trailing partial batch.
C5_AttemptCounts ==
    OcrReturned =>
        /\ Cardinality(CombinedAttempts) = OcrN \div 4
        /\ \A k \in 0..((OcrN \div 4) - 1) :
              LET extra == Cardinality(SingleAttemptsOn(Range(BatchOfFour(k))))
              IN  /\ extra \in 0..4
                  /\ BatchAccepted(k) => extra = 0
                  /\ ~BatchAccepted(k) => extra = 4
        /\ Cardinality(SingleAttemptsOn(TrailingUrls)) = OcrN % 4

\* nine URLs: one group accepted, one fallen back, one URL trailing
C5_Witness ==
    /\ o_pc = "done"
    /\ OcrN = 9
    /\ BatchAccepted(0)
    /\ ~BatchAccepted(1)
    /\ Cardinality(CombinedAttempts) = 2
    /\ Cardinality(SingleAttempts) = 5

OcrInFullBatch == OcrN - o_idx >= 4

\* C6: for a full batch of four, a combined recognition that returns empty
\* text (empty once the code has stripped it, line 346) or that fails at
\* the download, composite or recognition step adds no text and is
\* followed by per-image OCR on each of the four images in turn, every
\* non-empty per-image result being accepted; a non-empty combined text is
\* accepted and the loop moves past the batch with no per-image OCR.
C6_Step ==
    /\ (o_pc = "loop" /\ Len(o_calls') = Len(o_calls) + 1) =>
          IF o_attempt'.kind = "text" /\ strip(o_attempt'.raw) # <<>>
          THEN /\ o_texts' = Append(o_texts, strip(o_attempt'.raw))
               /\ o_pc' = "loop"
               /\ o_idx' = o_idx + 4
          ELSE /\ o_texts' = o_texts
               /\ o_pc' = "singles"
               /\ o_j' = 0
               /\ o_idx' = o_idx
    /\ (o_pc = "singles" /\ OcrInFullBatch /\ o_calls' # o_calls) =>
          /\ o_calls' = Append(o_calls, <<"single", o_unique_urls[o_idx + o_j + 1]>>)
          /\ o_texts' = IF o_single_text' \notin {None, <<>>}
                        THEN Append(o_texts, o_single_text') ELSE o_texts
    /\ (o_pc = "singles" /\ OcrInFullBatch /\ o_pc' = "loop") =>
          /\ o_j = 4
          /\ o_idx' = o_idx + 4

C6_FallbackOnEmptyOrFailure == [][C6_Step]_vars

\* a recognition failure on the composite, then the four per-image runs,
\* two of them with text
C6_Witness ==
    /\ o_pc = "singles"
    /\ o_attempt.kind = "ocr_error"
    /\ o_j = 4
    /\ Cardinality(SingleAttemptsOn(Range(BatchOfFour(0)))) = 4
    /\ Len(o_texts) = 2

\* C7: a trailing batch of fewer than four images is never combined: every
\* combined attempt is on four URLs, none of them of the trailing batch,
\* and each trailing URL gets its own per-image OCR.
C7_PartialNeverCombined ==
    /\ \A i \in CombinedAttempts :
          /\ Len(o_calls[i][2]) = 4
          /\ Range(o_calls[i][2]) \cap TrailingUrls = {}
    /\ OcrReturned =>
          \A u \in TrailingUrls : Cardinality(SingleAttemptsOn({u})) = 1

\* seven URLs: the last three were read one by one
C7_Witness ==
    /\ o_pc = "done"
    /\ OcrN = 7
    /\ Cardinality(SingleAttemptsOn(TrailingUrls)) = 3
    /\ Cardinality(CombinedAttempts) = 1

\* t is the accepted text of the source at position i of unique_urls: of
\* the image i, or of the group of four that starts at i
TextFrom(t, i) ==
    \/ t = TextOfImage(o_unique_urls[i])
    \/ (i % 4 = 1 /\ i + 3 <= OcrN /\ t = TextOfComposite(SubSeq(o_unique_urls, i, i + 3)))

RECURSIVE JoinedByBlankLine(_)
JoinedByBlankLine(ts) ==
    IF Len(ts) = 1 THEN ts[1]
    ELSE JoinedByBlankLine(SubSeq(ts, 1, Len(ts) - 1)) \o <<"\n", "\n">> \o ts[Len(ts)]

\* C8: the product's OCR text is the accepted non-empty texts, in URL and
\* batch order, joined by a double line break (five URLs, the group 1-4
\* read as T and URL 5 read as "ABC", give T, a blank line, "ABC"); with
\* no accepted text no ocr_text is set and no error is recorded.
C8_OcrTextJoined ==
    o_pc = "stored" =>
        /\ \A a \in 1..Len(o_texts) :
              /\ o_texts[a] # <<>>
              /\ \E i \in 1..OcrN : TextFrom(o_texts[a], i)
        /\ \A a, b \in 1..Len(o_texts) :
              a < b => \E i, j \in 1..OcrN :
                          i < j /\ TextFrom(o_texts[a], i) /\ TextFrom(o_texts[b], j)
        /\ o_texts # <<>> => o_detail.ocr_text = JoinedByBlankLine(o_texts)
        /\ o_texts = <<>> => o_detail.ocr_text = None
        /\ o_detail.error = None
        /\ (OcrN = 5 /\ BatchAccepted(0) /\ TextOfImage(Url(5)) \in Range(o_texts)) =>
              o_detail.ocr_text =
                  TextOfComposite(BatchOfFour(0)) \o <<"\n", "\n">> \o TextOfImage(Url(5))

\* the five-URL scenario
C8_Witness ==
    /\ o_pc = "stored"
    /\ OcrN = 5
    /\ o_texts = <<TextOfComposite(BatchOfFour(0)), TextOfImage(Url(5))>>
    /\ o_detail.ocr_text =
           TextOfComposite(BatchOfFour(0)) \o <<"\n", "\n">> \o TextOfImage(Url(5))

\* C16: every temporary composite file made for a batch is deleted before
\* run_ocr_on_images goes on to the next batch, on the success path and on
\* every failure path (download, composite, save, recognition): no
\* temporary composite file is left when run_ocr_on_images returns.
\* It is stated of one combined attempt, and of the attempts whose
\* deletion, when it is tried, succeeds: such an attempt leaves no file
\* behind, however far it got.
C16_Step ==
    /\ Len(o_calls') = Len(o_calls) + 1
    /\ o_calls'[Len(o_calls')][1] = "combined"
    /\ o_attempt'.unlink_ok
    => o_tmp_files' = o_tmp_files

C16_NoTempFileLeft == [][C16_Step]_vars

-----------------------------------------------------------------------------
(* SpecDedupe: the de-duplication of a list of URLs, applied to any list   *)
(* of the lists below and then to its own result.                          *)

MaxListLen == 3

\* entries of an image_urls list: no string, blank, URLs with and without
\* white space around and inside them
UrlEntries ==
    { None, NonStr, <<>>, <<" ">>, <<"a">>, <<" ", "a">>, <<"a", "\n">>, <<"b">>,
      <<"a", " ", "b">> }

\* lines of a file of URLs (str.splitlines leaves no line break in them)
FileLines ==
    { <<>>, <<" ">>, <<"a">>, <<" ", "a">>, <<"a", " ">>, <<"b">>, <<"#", "a">>,
      <<" ", "#">>, <<"a", "#">> }

dedupe(kind, list) == IF kind = "url_file" THEN load_urls(list) ELSE dedupe_urls(list)

InitDedupe ==
    /\ IdleScripts
    /\ IdlePipe
    /\ IdleCall
    /\ IdleUpload
    /\ IdleOcr
    /\ IdleBarcode
    /\ d_pc = "start"
    /\ d_kind \in {"image_urls", "url_file"}
    /\ d_list \in SeqsUpTo(IF d_kind = "url_file" THEN FileLines ELSE UrlEntries, MaxListLen)
    /\ d_once = <<>>
    /\ d_twice = <<>>

DedupeOnce ==
    /\ d_pc = "start"
    /\ d_once' = dedupe(d_kind, d_list)
    /\ d_pc' = "once"
    /\ UNCHANGED <<d_kind, d_list, d_twice>>
    /\ DedupeFrame

DedupeTwice ==
    /\ d_pc = "once"
    /\ d_twice' = dedupe(d_kind, d_once)
    /\ d_pc' = "twice"
    /\ UNCHANGED <<d_kind, d_list, d_once>>
    /\ DedupeFrame

NextDedupe ==
    \/ DedupeOnce
    \/ DedupeTwice

SpecDedupe == InitDedupe /\ [][NextDedupe]_vars

\* the entries of the list that count: strings that are not blank and,
\* in a file of URLs, no comment lines
DedupeKept(i) ==
    /\ IsStr(d_list[i])
    /\ strip(d_list[i]) # <<>>
    /\ d_kind = "url_file" => Head(strip(d_list[i])) # "#"

\* where the trimmed URL u is first seen in the list
FirstSeen(u) ==
    CHOOSE i \in 1..Len(d_list) :
        /\ DedupeKept(i) /\ strip(d_list[i]) = u
        /\ \A j \in 1..(i - 1) : ~(DedupeKept(j) /\ strip(d_list[j]) = u)

\* C9: URL de-duplication (exact match after trim) is idempotent,
\* dedupe(dedupe(L)) = dedupe(L), and keeps the first-seen order: its
\* result holds each trimmed URL of L once, in the order of first sight.
C9_DedupeIdempotentOrdered ==
    /\ d_pc = "twice" => d_twice = d_once
    /\ d_pc \in {"once", "twice"} =>
          /\ Range(d_once) = { strip(d_list[i]) : i \in { j \in 1..Len(d_list) : DedupeKept(j) } }
          /\ \A a, b \in 1..Len(d_once) :
                a < b => FirstSeen(d_once[a]) < FirstSeen(d_once[b])

\* a list with a padded repeat of its first URL and a second URL after it
C9_Witness ==
    /\ d_pc = "twice"
    /\ d_kind = "image_urls"
    /\ d_list = <<<<"a">>, <<" ", "a">>, <<"b">>>>
    /\ d_once = <<<<"a">>, <<"b">>>>
    /\ d_twice = d_once

-----------------------------------------------------------------------------
(* SpecBarcode: one call of run_barcode_on_images on any list of the lists *)
(* below.                                                                  *)

MaxScanUrls == 3

BarcodeInputs ==
    UNION { { BaseUrls(n),
              <<None, <<>>>> \o BaseUrls(n) \o <<<<" ">>, NonStr>>,
              Flatten([k \in 1..n |-> <<Url(k), <<" ">> \o Url(k)>>]),
              [k \in 1..n |-> <<" ">> \o Url(k) \o <<"\n">>] \o BaseUrls(n) }
            : n \in 0..MaxScanUrls }

InitBarcode ==
    /\ IdleScripts
    /\ IdlePipe
    /\ IdleCall
    /\ IdleUpload
    /\ IdleOcr
    /\ IdleDedupe
    /\ b_pc = "scan"
    /\ b_image_urls \in BarcodeInputs
    /\ b_pos = 0
    /\ b_seen = {}
    /\ b_scans = <<>>
    /\ b_value = None

NextBarcode ==
    \/ BarcodeSkip
    \/ BarcodeScan
    \/ BarcodeNotFound

SpecBarcode == InitBarcode /\ [][NextBarcode]_vars

AllowListed == {"EAN13", "EAN8", "CODABAR"}

\* the values of allow-listed symbology the scan at place i decoded
AllowedValuesAt(i) ==
    IF b_scans[i][2].kind # "decoded" THEN <<>>
    ELSE SelectSeq(b_scans[i][2].results,
                   LAMBDA r : r.type \in AllowListed /\ strip(r.data) # <<>>)

ScansWithBarcode == { i \in 1..Len(b_scans) : AllowedValuesAt(i) # <<>> }

IsPrefix(p, q) == Len(p) <= Len(q) /\ SubSeq(q, 1, Len(p)) = p

\* C10: run_barcode_on_images returns None when no image decodes to a
\* value of an allow-listed symbology (EAN-13, EAN-8, Codabar); otherwise
\* it returns the first such value, the images being taken in input order
\* after de-duplication, and the scan stops there: no later download.
C10_FirstAllowedBarcode ==
    /\ IsPrefix([i \in 1..Len(b_scans) |-> b_scans[i][1]], dedupe_urls(b_image_urls))
    /\ b_pc = "done" =>
          IF ScansWithBarcode = {}
          THEN /\ b_value = None
               /\ Len(b_scans) = Len(dedupe_urls(b_image_urls))
          ELSE /\ ScansWithBarcode = {Len(b_scans)}
               /\ b_value = strip(AllowedValuesAt(Len(b_scans))[1].data)

\* the second of three images holds a QR code and an EAN-8: the EAN-8 is
\* returned and the third image is never downloaded
C10_Witness ==
    /\ b_pc = "done"
    /\ Len(dedupe_urls(b_image_urls)) = 3
    /\ Len(b_scans) = 2
    /\ b_value = CodeOn("EAN8", Url(2))

\* the scans whose download failed or whose decoder raised
FailedScans ==
    { i \in 1..Len(b_scans) : b_scans[i][2].kind \in {"download_error", "decode_error"} }

\* C11: a download failure or a decoder failure for one URL does not end
\* the barcode scan: when the scan is over, either a later image gave the
\* barcode that is returned, or every URL of the list has been scanned and
\* None is returned.
C11_ScanFailureNotFatal ==
    \A i \in FailedScans :
        b_pc = "done" =>
            \/ \E j \in (i + 1)..Len(b_scans) :
                  /\ AllowedValuesAt(j) # <<>>
                  /\ b_value = strip(AllowedValuesAt(j)[1].data)
            \/ /\ b_value = None
               /\ [k \in 1..Len(b_scans) |-> b_scans[k][1]] = dedupe_urls(b_image_urls)

\* the download of the first image fails, the decoder raises on the second,
\* the third image gives an EAN-13, which is returned
C11_Witness ==
    /\ b_pc = "done"
    /\ Len(b_scans) = 3
    /\ b_scans[1][2].kind = "download_error"
    /\ b_scans[2][2].kind = "decode_error"
    /\ b_value = CodeOn("EAN13", Url(3))

-----------------------------------------------------------------------------
(* SpecUpload: one call of upload_product_to_nutrisnap on any product,     *)
(* registry and dry_run flag of the sets below.                            *)

\* product names as the scrapers hand them over
UploadNames == {None, <<>>, <<" ">>, <<"a">>, <<" ", "A">>, <<"B", " ">>}

UploadNutritions ==
    { <<>>,
      << <<<<"k">>, <<"v">>>> >>,
      << <<<<>>, <<"v">>>> >>,
      << <<<<"k">>, <<>>>>, <<<<"k">>, <<"v">>>> >> }

\* registries hold normalized names (fetch_existing_product_names, record)
UploadRegistries == SUBSET {<<"a">>, <<"b">>}

UploadProducts ==
    { MakeProduct(ln, None, None, MakeDetail(dn, <<>>, nu, None)) :
        ln \in UploadNames, dn \in UploadNames, nu \in UploadNutritions }

InitUpload ==
    /\ IdleScripts
    /\ IdlePipe
    /\ IdleCall
    /\ IdleOcr
    /\ IdleDedupe
    /\ IdleBarcode
    /\ u_pc = "call"
    /\ u_product \in UploadProducts
    /\ u_registry0 \in UploadRegistries
    /\ u_registry = u_registry0
    /\ u_dry_run \in BOOLEAN
    /\ u_posts = <<>>
    /\ u_response = <<>>
    /\ u_ret = <<>>

UploadCall ==
    /\ u_pc = "call"
    /\ \E post \in PostOutcomes :
         LET r == upload_product_to_nutrisnap(u_product, u_registry, u_dry_run, post)
         IN  /\ u_posts' = u_posts \o r.posted
             /\ u_response' = IF r.posted # <<>> THEN <<post>> ELSE <<>>
             /\ u_registry' = r.registry
             /\ u_ret' = <<r.ret>>
    /\ u_pc' = "returned"
    /\ UNCHANGED <<u_product, u_registry0, u_dry_run>>
    /\ UploadFrame

NextUpload == UploadCall

SpecUpload == InitUpload /\ [][NextUpload]_vars

(* What the claims speak of, said without the operators of the model of   *)
(* the registry and of the payload.                                        *)

\* the trimmed, lowercased, non-empty names of a record
NormalizedNames(product) ==
    { lower(strip(n)) : n \in { m \in {product.listing_name, product.detail.detail_name} :
                                  IsStr(m) /\ strip(m) # <<>> } }

\* the record holds a nutrition entry with a non-empty label and value
HasNutritionEntry(product) ==
    LET entries == product.detail.nutrition
    IN  /\ entries # None
        /\ \E i \in 1..Len(entries) :
              /\ IsStr(entries[i][1]) /\ entries[i][1] # <<>>
              /\ IsStr(entries[i][2]) /\ entries[i][2] # <<>>

UploadSkipCase ==
    \/ NormalizedNames(u_product) \cap u_registry0 # {}
    \/ ~HasNutritionEntry(u_product)
    \/ u_dry_run

\* C1: when the registry already holds one of the product's normalized
\* names, or the payload has no nutrition entries, or dry_run is set,
\* upload_product_to_nutrisnap performs no POST and returns False.
C1_SkipMeansNoPost ==
    (u_pc = "returned" /\ UploadSkipCase)
        => (u_posts = <<>> /\ u_response = <<>> /\ u_ret = <<FALSE>>)

\* the call returned on dry_run alone: new name, nutrition present
C1_Witness ==
    /\ u_pc = "returned"
    /\ u_dry_run
    /\ NormalizedNames(u_product) # {}
    /\ NormalizedNames(u_product) \cap u_registry0 = {}
    /\ HasNutritionEntry(u_product)
    /\ u_posts = <<>>

\* C2: after a POST that succeeds, both normalized candidate names of the
\* product (listing name and detail name, trimmed and lowercased, when
\* non-empty) are in the registry and the call reports success.
C2_SuccessRecordsBothNames ==
    (u_pc = "returned" /\ u_response = <<"ok">>)
        => /\ NormalizedNames(u_product) \subseteq u_registry
           /\ u_registry = u_registry0 \cup NormalizedNames(u_product)
           /\ u_ret = <<TRUE>>

\* a successful POST of a product with two different names, both new
C2_Witness ==
    /\ u_pc = "returned"
    /\ u_response = <<"ok">>
    /\ Cardinality(NormalizedNames(u_product)) = 2
    /\ NormalizedNames(u_product) \cap u_registry0 = {}
    /\ NormalizedNames(u_product) \subseteq u_registry

\* C3: the registry is changed only by a successful upload: a skipped
\* upload and a POST that fails with an HTTP or network error leave the
\* registry exactly as it was and report failure.
C3_RegistryFrame ==
    u_pc = "returned" =>
        /\ (UploadSkipCase \/ u_response \in {<<"http_error">>, <<"network_error">>})
              => (u_registry = u_registry0 /\ u_ret = <<FALSE>>)
        /\ (u_registry # u_registry0 => u_response = <<"ok">>)

\* a POST of a product with a new name failed
C3_Witness ==
    /\ u_pc = "returned"
    /\ u_response = <<"http_error">>
    /\ NormalizedNames(u_product) # {}
    /\ NormalizedNames(u_product) \cap u_registry0 = {}
    /\ u_registry = u_registry0

-----------------------------------------------------------------------------
(* Spec: one run of main of blinkit_batch_scraper.py on a listing of at    *)
(* most MaxProducts products.                                              *)

MaxProducts == 2

\* what extract_products hands over for one product: (name, image, link)
PipeListings ==
    { <<name, image, link>> :
        name \in {<<"a">>, <<" ", "B">>},
        image \in {None, Url(1)},
        link \in {None, <<"http://product/">>} }

\* what a detail page can yield: the scrape fails, or a name that
\* normalizes to "a", four hero images, one of them listed twice, and
\* nutrition
PipeDetails ==
    { FailedDetail,
      MakeDetail(<<"A">>, <<Url(2), Url(3), Url(2), Url(4), Url(5)>>,
                 << <<<<"k">>, <<"v">>>> >>, None) }

PipeNamesResponses ==
    { [kind |-> "unreachable", payload |-> <<>>],
      [kind |-> "json_other", payload |-> <<>>],
      [kind |-> "json_list", payload |-> << <<" ", "A">>, NonStr, <<" ">> >>] }

PipePosts == {"ok", "http_error"}

\* the images of the pipeline's listings: any download can fail, the listing
\* image carries an EAN-13 and the hero images no barcode
PipeScanOutcomes(url) ==
    { out \in ScanOutcomes(url) :
        \/ out.kind = "download_error"
        \/ url = Url(1) /\ out.results = <<Symbol("EAN13", CodeOn("EAN13", url))>> }

\* no image alone yields text
PipeSingleOutcomes(url) == { out \in SingleOutcomes(url) : out.kind = "error" }

\* the composite of four images yields its text, or the recognition fails
PipeCombinedOutcomes(batch) ==
    { out \in CombinedOutcomes(batch) :
        /\ out.unlink_ok
        /\ \/ out.kind = "ocr_error"
           \/ out.kind = "text" /\ out.raw = TextOfComposite(batch) }

Init ==
    /\ IdleScripts
    /\ IdleCall
    /\ IdleUpload
    /\ IdleOcr
    /\ IdleDedupe
    /\ IdleBarcode
    /\ p_pc = "start"
    /\ p_listing \in
         {[kind |-> "error", products |-> <<>>]}
         \cup { [kind |-> "products", products |-> ps] : ps \in SeqsUpTo(PipeListings, MaxProducts) }
    /\ p_dry_run \in BOOLEAN
    /\ p_max_products \in {<<>>, <<-1>>, <<1>>}
    /\ p_products = <<>>
    /\ p_i = 0
    /\ p_existing_names = {}
    /\ p_record = None
    /\ p_barcode_value = None
    /\ p_combined_results = <<>>
    /\ p_events = <<>>
    /\ p_posts = <<>>
    /\ p_report = <<>>
    /\ p_exit = <<>>

PipeFetchNames == PipeFetchNamesWith(PipeNamesResponses)

PipeProductSkipped == PipeProductSkippedWith(PipeDetails)

PipeProductEnrich == PipeProductEnrichWith(PipeDetails)

PipeBarcodeScan == BarcodeScanWith(PipeScanOutcomes)

PipeOcrCombined == OcrCombinedWith(PipeCombinedOutcomes)

PipeOcrSingle == OcrSingleWith(PipeSingleOutcomes)

PipeUpload == PipeUploadWith(PipePosts)

Next ==
    \/ PipeScrapeListing
    \/ PipeFetchNames
    \/ PipeProductSkipped
    \/ PipeProductEnrich
    \/ BarcodeSkip
    \/ PipeBarcodeScan
    \/ BarcodeNotFound
    \/ PipeStartOcr
    \/ OcrStart
    \/ PipeOcrCombined
    \/ OcrPartial
    \/ PipeOcrSingle
    \/ OcrAdvance
    \/ OcrReturn
    \/ PipeStore
    \/ PipeUpload
    \/ PipeWriteReport

Spec == Init /\ [][Next]_vars

\* the POSTs issued for product number idx of the run
PostsFor(idx) == { k \in 1..Len(p_posts) : p_posts[k][1] = idx }

\* C4: within one run at most one HTTP POST is issued for a product record,
\* whether the POST succeeds or fails: nothing is retried.
C4_AtMostOnePostPerProduct ==
    /\ \A idx \in 1..MaxProducts + 1 : Cardinality(PostsFor(idx)) <= 1
    /\ \A k \in 1..Len(p_posts) : p_posts[k][1] \in 1..Len(p_products)

\* a run is over whose first product's POST failed and whose second
\* product's POST succeeded: each of them was POSTed once
C4_Witness ==
    /\ p_pc = "done"
    /\ Len(p_posts) = 2
    /\ p_posts[1] = <<1, "http_error">>
    /\ p_posts[2] = <<2, "ok">>

\* the listing scrape gave at least one product
ListingYielded == p_listing.kind = "products" /\ p_listing.products # <<>>

\* the entry of the report is the product the listing gave at place k
ReportEntryIsProduct(entry, k) ==
    /\ entry.listing_name = p_products[k][1]
    /\ entry.listing_image = p_products[k][2]
    /\ entry.product_link = p_products[k][3]

\* C17: a failure that concerns one product (detail scrape, image download,
\* OCR, barcode, upload) never ends the batch.  Once the listing gave a
\* product, the run ends only after the last product, and it fails only
\* when the report cannot be written; the report written holds one entry
\* per product processed, in that order, the product without a link
\* carries its error as a string, and no product with an error was POSTed.
C17_FailuresNeverAbortBatch ==
    /\ ListingYielded /\ p_pc \in {"done", "failed"} => p_i = Len(p_products)
    /\ p_pc = "done" =>
          /\ p_report # <<>>
          /\ Len(p_report[1]) = Len(p_products)
          /\ \A k \in 1..Len(p_products) :
                /\ ReportEntryIsProduct(p_report[1][k], k)
                /\ ~Truthy(p_products[k][3]) =>
                      p_report[1][k].detail.error
                          = <<"No product link from listing scrape.">>
                /\ p_report[1][k].detail.error # None =>
                      Cardinality(PostsFor(k)) = 0

\* the POST of the first product failed and the detail scrape of the second
\* failed: the report holds both, in order, the second with its error
C17_Witness ==
    /\ p_pc = "done"
    /\ p_posts = << <<1, "http_error">> >>
    /\ Len(p_report[1]) = 2
    /\ p_report[1][1].detail.error = None
    /\ p_report[1][2].detail.error = <<"detail scrape failed">>

-----------------------------------------------------------------------------
(* stack_vertically and main: combine_images.py                            *)
(* A bitmap is its size.  The result of a call is what it returned or      *)
(* raised: kind "bitmap" with the size of the canvas and the place each    *)
(* image was pasted at, or the kind of the exception.                      *)

Raised(kind) == [kind |-> kind, width |-> 0, height |-> 0, placed |-> <<>>]

RECURSIVE max_of(_)
max_of(ns) ==
    IF Len(ns) = 1 THEN ns[1]
    ELSE LET rest == max_of(Tail(ns)) IN IF ns[1] >= rest THEN ns[1] ELSE rest

RECURSIVE sum_of(_)
sum_of(ns) == IF ns = <<>> THEN 0 ELSE ns[1] + sum_of(Tail(ns))

\* a bug the claims must exclude: a border is counted after the last image too
total_height_border_after_each(imgs, border_px) ==
    sum_of([i \in 1..Len(imgs) |-> imgs[i].height]) + border_px * Len(imgs)

\* line 57
total_height_of(imgs, border_px) ==
    sum_of([i \in 1..Len(imgs) |-> imgs[i].height]) + border_px * (Len(imgs) - 1)

\* lines 62-68: the paste loop, the places the images are pasted at
RECURSIVE paste_loop(_, _, _, _, _, _)
paste_loop(imgs, idx, y_offset, max_width, border_px, placed) ==
    IF idx > Len(imgs) THEN placed
    ELSE LET x_offset == (max_width - imgs[idx].width) \div 2
         IN  paste_loop(imgs, idx + 1,
                        y_offset + imgs[idx].height
                            + (IF idx - 1 < Len(imgs) - 1 THEN border_px ELSE 0),
                        max_width, border_px, Append(placed, <<x_offset, y_offset>>))

\* Image.new (Pillow): a negative side is a ValueError; a side of zero is a
\* ValueError in the builds that want positive sides (strict) and an empty
\* canvas in the others
image_new_raises(width, height, strict) ==
    \/ width < 0
    \/ height < 0
    \/ strict /\ (width = 0 \/ height = 0)

\* lines 46-70
stack_vertically(imgs, border_px, strict) ==
    IF Len(imgs) # 4 THEN Raised("ValueError")
    ELSE LET max_width == max_of([i \in 1..Len(imgs) |-> imgs[i].width])
             total_height == total_height_of(imgs, border_px)
         IN  IF image_new_raises(max_width, total_height, strict) THEN Raised("ValueError")
             ELSE [ kind |-> "bitmap",
                    width |-> max_width,
                    height |-> total_height,
                    placed |-> paste_loop(imgs, 1, 0, max_width, border_px, <<>>) ]

\* lines 110-122: the command line.  argparse wants four URLs (nargs=4,
\* line 79) and exits otherwise; a negative --border is a ValueError; a
\* download or the save of the result can fail.
combine_main(args) ==
    IF Len(args.images) # 4 THEN Raised("SystemExit")
    ELSE IF args.border < 0 THEN Raised("ValueError")
    ELSE IF ~args.downloads_ok THEN Raised("DownloadError")
    ELSE LET combined == stack_vertically(args.images, args.border, args.strict)
         IN  IF combined.kind # "bitmap" THEN combined
             ELSE IF ~args.save_ok THEN Raised("OSError")
             ELSE combined

\* stack_vertically is called by a caller of the library
StackCall ==
    /\ c_pc = "call"
    /\ c_in.entry = "stack_vertically"
    /\ c_out' = <<stack_vertically(c_in.images, c_in.border, c_in.strict)>>
    /\ c_pc' = "returned"
    /\ UNCHANGED c_in
    /\ CallFrame

\* combine_images.py is run from the command line
CombineMain ==
    /\ c_pc = "call"
    /\ c_in.entry = "main"
    /\ c_out' = <<combine_main(c_in)>>
    /\ c_pc' = "returned"
    /\ UNCHANGED c_in
    /\ CallFrame

(* SpecStack: one call of stack_vertically, or one run of the command      *)
(* line, on at most MaxImages bitmaps of the sizes below and a border of   *)
(* -MaxBorder..MaxBorder pixels.                                           *)

MaxImages == 5

MaxBorder == 2

ImageSizes ==
    { [width |-> 1, height |-> 1], [width |-> 4, height |-> 1], [width |-> 2, height |-> 3] }

StackInputs ==
    [ entry : {"stack_vertically"},
      images : SeqsUpTo(ImageSizes, MaxImages),
      border : (0 - MaxBorder)..MaxBorder,
      strict : BOOLEAN,
      downloads_ok : {TRUE},
      save_ok : {TRUE} ]
    \cup
    [ entry : {"main"},
      images : SeqsUpTo(ImageSizes, MaxImages),
      border : (0 - MaxBorder)..MaxBorder,
      strict : BOOLEAN,
      downloads_ok : BOOLEAN,
      save_ok : BOOLEAN ]

InitStack ==
    /\ IdleScripts
    /\ IdlePipe
    /\ IdleUpload
    /\ IdleOcr
    /\ IdleDedupe
    /\ IdleBarcode
    /\ c_pc = "call"
    /\ c_in \in StackInputs
    /\ c_out = <<>>

NextStack ==
    \/ StackCall
    \/ CombineMain

SpecStack == InitStack /\ [][NextStack]_vars

\* a call of stack_vertically (not of the command line) has returned
StackReturned == c_pc = "returned" /\ c_in.entry = "stack_vertically"

\* C12: for exactly four bitmaps and a border >= 0, stack_vertically
\* returns a bitmap whose height is the sum of the four heights plus three
\* times the border and whose width is the largest of the four widths.
C12_CompositeSize ==
    StackReturned /\ Len(c_in.images) = 4 /\ c_in.border >= 0 =>
        /\ c_out[1].kind = "bitmap"
        /\ c_out[1].height =
               c_in.images[1].height + c_in.images[2].height + c_in.images[3].height
                   + c_in.images[4].height + 3 * c_in.border
        /\ \A i \in 1..4 : c_out[1].width >= c_in.images[i].width
        /\ \E i \in 1..4 : c_out[1].width = c_in.images[i].width

\* bitmaps of 1x1, 4x1, 2x3 and 1x1 with a border of 2 give a canvas of 4x12
C12_Witness ==
    /\ StackReturned
    /\ c_in.images = << [width |-> 1, height |-> 1], [width |-> 4, height |-> 1],
                        [width |-> 2, height |-> 3], [width |-> 1, height |-> 1] >>
    /\ c_in.border = 2
    /\ c_out[1].kind = "bitmap"
    /\ c_out[1].width = 4
    /\ c_out[1].height = 12

\* C13: stack_vertically raises an invalid-input error when it is given 3
\* or 5 images, and when the border thickness is negative.
C13_RejectsBadCountAndNegativeBorder ==
    StackReturned /\ (Len(c_in.images) \in {3, 5} \/ c_in.border < 0) =>
        c_out[1].kind = "ValueError"

-----------------------------------------------------------------------------
(* SpecFetch: one call of fetch_existing_product_names, the GET meeting    *)
(* any response of the set below.                                          *)

MaxNames == 3

\* what a JSON array can hold: null, a number, strings
NameEntries ==
    { None, NonStr, <<>>, <<" ">>, <<"a">>, <<" ", "A">>, <<"B", " ">>, <<"b">> }

NamesResponses ==
    [kind : {"unreachable", "http_error", "not_json"}, payload : {<<>>}]
    \cup [kind : {"json_list", "json_other"}, payload : SeqsUpTo(NameEntries, MaxNames)]

InitFetch ==
    /\ IdleScripts
    /\ IdlePipe
    /\ IdleUpload
    /\ IdleOcr
    /\ IdleDedupe
    /\ IdleBarcode
    /\ c_pc = "call"
    /\ c_in \in NamesResponses
    /\ c_out = <<>>

FetchCall ==
    /\ c_pc = "call"
    /\ c_out' = <<fetch_existing_product_names(c_in)>>
    /\ c_pc' = "returned"
    /\ UNCHANGED c_in
    /\ CallFrame

NextFetch == FetchCall

SpecFetch == InitFetch /\ [][NextFetch]_vars

\* the strings among the entries of the payload, trimmed and lowercased,
\* the blank ones left out
TrimmedLowercasedStrings(payload) ==
    { lower(strip(payload[i])) :
        i \in { j \in 1..Len(payload) : IsStr(payload[j]) /\ strip(payload[j]) # <<>> } }

\* C14: fetch_existing_product_names always returns a registry: the empty
\* one when the endpoint is unreachable, answers an HTTP error, a body that
\* is no JSON or a payload that is no list; for a list, the set of its
\* string entries trimmed and lowercased, non-strings and blanks dropped.
C14_FetchDegradesToEmpty ==
    c_pc = "returned" =>
        c_out[1] = IF c_in.kind = "json_list" THEN TrimmedLowercasedStrings(c_in.payload)
                   ELSE {}

\* a list of " A", a number and "b" gives the registry {"a", "b"}
C14_Witness ==
    /\ c_pc = "returned"
    /\ c_in.kind = "json_list"
    /\ c_in.payload = << <<" ", "A">>, NonStr, <<"b">> >>
    /\ c_out[1] = {<<"a">>, <<"b">>}

-----------------------------------------------------------------------------
(* SpecExists: one call of product_exists_in_registry on any record and    *)
(* registry of the sets below.                                             *)

\* a name of a record: missing, not a string, empty, blank, or a string
RecordNames == UploadNames \cup {NonStr}

ExistsInputs ==
    [ product : { MakeProduct(ln, None, None, MakeDetail(dn, <<>>, <<>>, None)) :
                    ln \in RecordNames, dn \in RecordNames },
      registry : UploadRegistries ]

InitExists ==
    /\ IdleScripts
    /\ IdlePipe
    /\ IdleUpload
    /\ IdleOcr
    /\ IdleDedupe
    /\ IdleBarcode
    /\ c_pc = "call"
    /\ c_in \in ExistsInputs
    /\ c_out = <<>>

ExistsCall ==
    /\ c_pc = "call"
    /\ c_out' = <<product_exists_in_registry(c_in.product, c_in.registry)>>
    /\ c_pc' = "returned"
    /\ UNCHANGED c_in
    /\ CallFrame

NextExists == ExistsCall

SpecExists == InitExists /\ [][NextExists]_vars

\* name is a string that is not blank and whose trimmed, lowercased form
\* is in the registry
NameInRegistry(name, registry) ==
    /\ IsStr(name)
    /\ strip(name) # <<>>
    /\ lower(strip(name)) \in registry

\* C15: product_exists_in_registry is true exactly when the trimmed,
\* lowercased listing name or detail name of the record is in the
\* registry; a record without a non-empty name is never said to exist.
C15_ExistsIffNormalizedNameInRegistry ==
    c_pc = "returned" =>
        /\ c_out[1] <=> \/ NameInRegistry(c_in.product.listing_name, c_in.registry)
                        \/ NameInRegistry(c_in.product.detail.detail_name, c_in.registry)
        /\ (\A name \in {c_in.product.listing_name, c_in.product.detail.detail_name} :
               ~IsStr(name) \/ strip(name) = <<>>) => ~c_out[1]

\* the listing name is not in the registry, the detail name " A" is, as "a"
C15_Witness ==
    /\ c_pc = "returned"
    /\ c_in.product.listing_name = <<"B", " ">>
    /\ c_in.product.detail.detail_name = <<" ", "A">>
    /\ c_in.registry = {<<"a">>}
    /\ c_out[1] = TRUE

-----------------------------------------------------------------------------
(* SpecPayload: one call of build_upload_payload on any record of the set  *)
(* below.                                                                  *)

\* nutrition of a record: none, pairs with and without empty, blank or
\* missing parts, a label given twice
PayloadNutritions ==
    UploadNutritions
    \cup { << <<<<" ">>, <<"v">>>> >>,
           << <<None, <<"v">>>>, <<<<"k">>, None>> >>,
           << <<<<"k">>, <<"v">>>>, <<<<"j">>, <<"w">>>>, <<<<"k">>, <<"x">>>> >> }

PayloadProducts ==
    { [ MakeProduct(<<"a">>, None, link, MakeDetail(None, <<>>, nu, None))
          EXCEPT !.detail.description = de,
                 !.detail.ingredients = ing,
                 !.detail.fssai_license = fs,
                 !.detail.ocr_text = oc,
                 !.detail.barcode = ba ] :
        link \in {None, <<"http://product/">>},
        nu \in PayloadNutritions,
        de \in {None, <<>>, <<"d">>},
        ing \in {None, <<>>, <<"i", ",", " ", "j">>},
        fs \in {None, <<>>, <<"f">>},
        oc \in {None, <<"o", "\n", "\n", "p">>},
        ba \in {None, <<"8">>} }

InitPayload ==
    /\ IdleScripts
    /\ IdlePipe
    /\ IdleUpload
    /\ IdleOcr
    /\ IdleDedupe
    /\ IdleBarcode
    /\ c_pc = "call"
    /\ c_in \in PayloadProducts
    /\ c_out = <<>>

PayloadCall ==
    /\ c_pc = "call"
    /\ c_out' = <<build_upload_payload(c_in)>>
    /\ c_pc' = "returned"
    /\ UNCHANGED c_in
    /\ CallFrame

NextPayload == PayloadCall

SpecPayload == InitPayload /\ [][NextPayload]_vars

\* build_upload_payload has returned a payload
PayloadBuilt == c_pc = "returned" /\ c_out[1] # <<>>

\* C18: build_upload_payload returns no payload exactly when the record
\* has no nutrition entry with a non-empty label and a non-empty value;
\* the payload it returns otherwise has a nutrition map that is not empty.
C18_NoPayloadIffNoNutrition ==
    c_pc = "returned" =>
        /\ c_out[1] = <<>> <=> ~HasNutritionEntry(c_in)
        /\ c_out[1] # <<>> =>
              /\ c_out[1][1].nutrition # None
              /\ Len(c_out[1][1].nutrition) >= 1

\* entries whose label or value is empty give no payload; an entry with
\* both, after one without a value, gives a payload with that entry
C18_Witness ==
    /\ c_pc = "returned"
    /\ c_in.detail.nutrition = << <<<<"k">>, <<>>>>, <<<<"k">>, <<"v">>>> >>
    /\ c_out[1] # <<>>
    /\ c_out[1][1].nutrition = << <<<<"k">>, <<"v">>>> >>

\* the section of a field: nothing when the field is missing or empty, the
\* label followed by the field otherwise
Section(label, field) ==
    IF IsStr(field) /\ field # <<>> THEN <<label \o field>> ELSE <<>>

\* the sections after the description, each behind its label, in order
LabelledSections(detail) ==
    Section(<<"Ingredients:", " ">>, detail.ingredients)
        \o Section(<<"FSSAI License:", " ">>, detail.fssai_license)
        \o Section(<<"OCR Text:", "\n">>, detail.ocr_text)
        \o Section(<<"Barcode:", " ">>, detail.barcode)

\* the sections, one per line
RECURSIVE OnePerLine(_)
OnePerLine(sections) ==
    IF Len(sections) = 1 THEN sections[1]
    ELSE sections[1] \o <<"\n">> \o OnePerLine(Tail(sections))

EndsWith(text, tail) ==
    Len(tail) <= Len(text) /\ SubSeq(text, Len(text) - Len(tail) + 1, Len(text)) = tail

\* C19 as amended: in additionalText the description, ingredients, FSSAI,
\* OCR and barcode sections stand in that order, one per line, each only
\* when its field is present; the ingredients, FSSAI, OCR and barcode
\* sections are prefixed by their labels, the description is included as
\* it is, without a label; when no field is present additionalText is
\* null.
C19_SectionsInOrderDescriptionBare ==
    PayloadBuilt =>
        LET sections == Section(<<>>, c_in.detail.description)
                            \o LabelledSections(c_in.detail)
        IN  c_out[1][1].additionalText
                = IF sections = <<>> THEN None ELSE OnePerLine(sections)

\* the five fields are present: the description comes first and bare, the
\* other four follow behind their labels
C19_Witness ==
    /\ PayloadBuilt
    /\ c_in.detail.description = <<"d">>
    /\ c_in.detail.ingredients = <<"i", ",", " ", "j">>
    /\ c_out[1][1].additionalText =
           << "d", "\n", "Ingredients:", " ", "i", ",", " ", "j", "\n",
              "FSSAI License:", " ", "f", "\n", "OCR Text:", "\n", "o", "\n", "\n", "p",
              "\n", "Barcode:", " ", "8" >>

\* C19: in additionalText each of the sections description, ingredients,
\* FSSAI, OCR and barcode is included only when its field is present, is
\* prefixed by its label, and the sections stand in that order; when none
\* is present additionalText is null.  The label of the description is
\* left open: the text that stands before the other sections is asked to
\* be longer than the description, a label being in front of it.
C19_EverySectionLabelled ==
    PayloadBuilt =>
        LET text == c_out[1][1].additionalText
            description == Section(<<>>, c_in.detail.description)
            others == LabelledSections(c_in.detail)
        IN  /\ description \o others = <<>> => text = None
            /\ description \o others # <<>> => text # None
            /\ others # <<>> => text # None /\ EndsWith(text, OnePerLine(others))
            /\ description = <<>> /\ others # <<>> => text = OnePerLine(others)
            /\ description # <<>> =>
                  /\ text # None
                  /\ Len(text) > Len(OnePerLine(description \o others))

-----------------------------------------------------------------------------
(* _normalize_str and _normalize_nutrition: blinkit_saved_report_uploader.py *)

\* str(value): the object that is no string is the number 7
str_of(value) == IF value = NonStr THEN <<"7">> ELSE value

\* lines 123-127
normalize_str(value) ==
    IF value = None THEN None
    ELSE LET text == strip(str_of(value))
         IN  IF text = <<>> THEN None ELSE text

\* lines 137-150: an item is a dict (kind "dict"), a list or tuple of two
\* (kind "pair"), or anything else (kind "other"), which is skipped
RECURSIVE normalize_nutrition_loop(_, _)
normalize_nutrition_loop(entries, normalized) ==
    IF entries = <<>> THEN normalized
    ELSE LET item == entries[1]
         IN  IF item.kind \notin {"dict", "pair"}
             THEN normalize_nutrition_loop(Tail(entries), normalized)
             ELSE LET label == normalize_str(item.label)
                      value == normalize_str(item.value)
                  IN  IF label # None /\ value # None
                      THEN normalize_nutrition_loop(Tail(entries),
                                                    Append(normalized, <<label, value>>))
                      ELSE normalize_nutrition_loop(Tail(entries), normalized)

\* lines 130-151
normalize_nutrition(entries) ==
    IF entries = <<>> THEN <<>> ELSE normalize_nutrition_loop(entries, <<>>)

(* SpecNutrition: one call of serialize_nutrition_entries, of               *)
(* nutrition_pairs_to_dict or of _normalize_nutrition on at most            *)
(* MaxEntries entries.                                                      *)

MaxEntries == 3

\* (label, value) pairs of a scraped record
NutritionPairs ==
    { <<label, value>> :
        label \in {None, <<>>, <<" ", "k">>, <<"k">>, <<"j">>},
        value \in {<<>>, <<"v">>, <<"w">>} }

\* items of the nutrition list of a saved report
NutritionItems ==
    [ kind : {"dict", "pair"},
      label : {None, <<>>, <<" ", "k">>, NonStr},
      value : {<<>>, <<"v">>} ]
    \cup {[kind |-> "other", label |-> None, value |-> None]}

NutritionInputs ==
    [ fn : {"serialize_nutrition_entries", "nutrition_pairs_to_dict"},
      entries : SeqsUpTo(NutritionPairs, MaxEntries) ]
    \cup [ fn : {"_normalize_nutrition"}, entries : SeqsUpTo(NutritionItems, MaxEntries) ]

InitNutrition ==
    /\ IdleScripts
    /\ IdlePipe
    /\ IdleUpload
    /\ IdleOcr
    /\ IdleDedupe
    /\ IdleBarcode
    /\ c_pc = "call"
    /\ c_in \in NutritionInputs
    /\ c_out = <<>>

SerializeNutritionCall ==
    /\ c_pc = "call"
    /\ c_in.fn = "serialize_nutrition_entries"
    /\ c_out' = <<serialize_nutrition_entries(c_in.entries)>>
    /\ c_pc' = "returned"
    /\ UNCHANGED c_in
    /\ CallFrame

NutritionDictCall ==
    /\ c_pc = "call"
    /\ c_in.fn = "nutrition_pairs_to_dict"
    /\ c_out' = <<nutrition_pairs_to_dict(c_in.entries)>>
    /\ c_pc' = "returned"
    /\ UNCHANGED c_in
    /\ CallFrame

NormalizeNutritionCall ==
    /\ c_pc = "call"
    /\ c_in.fn = "_normalize_nutrition"
    /\ c_out' = <<normalize_nutrition(c_in.entries)>>
    /\ c_pc' = "returned"
    /\ UNCHANGED c_in
    /\ CallFrame

NextNutrition ==
    \/ SerializeNutritionCall
    \/ NutritionDictCall
    \/ NormalizeNutritionCall

SpecNutrition == InitNutrition /\ [][NextNutrition]_vars

NutritionReturned == c_pc = "returned" /\ c_in.fn \in {"serialize_nutrition_entries",
                                                       "nutrition_pairs_to_dict",
                                                       "_normalize_nutrition"}

\* the result of the call read as a sequence of (label, value) pairs
NutritionOutPairs ==
    LET out == c_out[1]
    IN  IF c_in.fn = "serialize_nutrition_entries"
        THEN [i \in 1..Len(out) |-> <<out[i].label, out[i].value>>]
        ELSE IF c_in.fn = "nutrition_pairs_to_dict" /\ out = None THEN <<>>
        ELSE out

\* the pairs of the input whose label and value are both non-empty, in the
\* input's order; _normalize_nutrition reads label and value as trimmed text
\* and skips an item that is no pair
KeptPairs ==
    IF c_in.fn = "_normalize_nutrition"
    THEN LET kept == SelectSeq(c_in.entries,
                               LAMBDA item : /\ item.kind # "other"
                                             /\ normalize_str(item.label) # None
                                             /\ normalize_str(item.value) # None)
         IN  [i \in 1..Len(kept) |-> <<normalize_str(kept[i].label),
                                       normalize_str(kept[i].value)>>]
    ELSE SelectSeq(c_in.entries, LAMBDA e : Truthy(e[1]) /\ Truthy(e[2]))

NoEmptyLabelOrValue ==
    \A i \in 1..Len(NutritionOutPairs) :
        /\ Truthy(NutritionOutPairs[i][1])
        /\ Truthy(NutritionOutPairs[i][2])

\* positions of KeptPairs where a label occurs for the first time
FirstOccurrences ==
    { i \in 1..Len(KeptPairs) : \A j \in 1..(i - 1) : KeptPairs[j][1] # KeptPairs[i][1] }

\* one pair per label, at the place of the label's first kept pair, with the
\* value of the label's last kept pair
OnePairPerLabel ==
    /\ Len(NutritionOutPairs) = Cardinality(FirstOccurrences)
    /\ \A i \in FirstOccurrences :
         LET n == Cardinality({j \in FirstOccurrences : j <= i})
             last == CHOOSE j \in i..Len(KeptPairs) :
                        /\ KeptPairs[j][1] = KeptPairs[i][1]
                        /\ \A m \in (j + 1)..Len(KeptPairs) : KeptPairs[m][1] # KeptPairs[i][1]
         IN  NutritionOutPairs[n] = <<KeptPairs[i][1], KeptPairs[last][2]>>

\* C20 (as amended): serialize_nutrition_entries, nutrition_pairs_to_dict and
\* _normalize_nutrition return only pairs with a non-empty label and a
\* non-empty value; the two lists hold every pair of the input that has both,
\* in the input's order, and the dict holds one pair per label of those, in
\* the order the labels first occur, each with the value of its last pair.
C20_NoEmptyPairsOnePerLabelInDict ==
    NutritionReturned =>
        /\ NoEmptyLabelOrValue
        /\ IF c_in.fn = "nutrition_pairs_to_dict"
           THEN OnePairPerLabel
           ELSE NutritionOutPairs = KeptPairs

\* a dict built from a list that repeats a label and has a pair to drop
C20_Witness ==
    /\ NutritionReturned
    /\ c_in.fn = "nutrition_pairs_to_dict"
    /\ Len(KeptPairs) < Len(c_in.entries)
    /\ \E i, j \in 1..Len(KeptPairs) :
         i < j /\ KeptPairs[i][1] = KeptPairs[j][1] /\ KeptPairs[i][2] # KeptPairs[j][2]

\* C20 as stated: every one of the three functions keeps all the pairs that
\* have a non-empty label and a non-empty value, in order.
C20_KeepsRemainingPairsInOrder ==
    NutritionReturned => (NoEmptyLabelOrValue /\ NutritionOutPairs = KeptPairs)

-----------------------------------------------------------------------------
(* deserialize_product: blinkit_saved_report_uploader.py, lines 154-175      *)

\* a bug the claims must exclude: the error of a saved record is not read back
deserialize_product_without_error(raw) ==
    LET detail_raw == raw.detail
    IN  [ listing_name |-> normalize_str(raw.listing_name),
          listing_image |-> normalize_str(raw.listing_image),
          product_link |-> normalize_str(raw.product_link),
          detail |->
            [ detail_name |-> normalize_str(detail_raw.detail_name),
              hero_images |-> SelectSeq(detail_raw.hero_images,
                                        LAMBDA url : normalize_str(url) # None),
              nutrition |->
                normalize_nutrition(
                    [i \in 1..Len(detail_raw.nutrition) |->
                        [ kind |-> "dict",
                          label |-> detail_raw.nutrition[i].label,
                          value |-> detail_raw.nutrition[i].value ]]),
              ingredients |-> normalize_str(detail_raw.ingredients),
              description |-> normalize_str(detail_raw.description),
              fssai_license |-> normalize_str(detail_raw.fssai_license),
              ocr_text |-> normalize_str(detail_raw.ocr_text),
              barcode |-> normalize_str(detail_raw.barcode),
              error |-> None ] ]

\* lines 154-175; raw is a product of a saved report, whose nutrition is a
\* list of dicts with the keys label and value
deserialize_product(raw) ==
    LET detail_raw == raw.detail
    IN  [ listing_name |-> normalize_str(raw.listing_name),
          listing_image |-> normalize_str(raw.listing_image),
          product_link |-> normalize_str(raw.product_link),
          detail |->
            [ detail_name |-> normalize_str(detail_raw.detail_name),
              hero_images |-> SelectSeq(detail_raw.hero_images,
                                        LAMBDA url : normalize_str(url) # None),
              nutrition |->
                normalize_nutrition(
                    [i \in 1..Len(detail_raw.nutrition) |->
                        [ kind |-> "dict",
                          label |-> detail_raw.nutrition[i].label,
                          value |-> detail_raw.nutrition[i].value ]]),
              ingredients |-> normalize_str(detail_raw.ingredients),
              description |-> normalize_str(detail_raw.description),
              fssai_license |-> normalize_str(detail_raw.fssai_license),
              ocr_text |-> normalize_str(detail_raw.ocr_text),
              barcode |-> normalize_str(detail_raw.barcode),
              error |-> normalize_str(detail_raw.error) ] ]

(* SpecRoundTrip: a product record is written to a report by                *)
(* serialize_product_for_json and read back by deserialize_product.         *)

ListingFields == {"listing_name", "listing_image", "product_link"}

DetailTextFields == {"detail_name", "ingredients", "description", "fssai_license",
                     "ocr_text", "barcode", "error"}

\* texts a field of a record can hold: absent, empty, blank, trimmed, and
\* with white space around it (str(exc) of a driver error ends in a newline)
RoundTripTexts == {None, <<>>, <<" ">>, <<"a">>, <<" ", "a", "\n">>}

RoundTripHeroImages == {None, <<>>, <<Url(1), Url(2)>>, <<Url(1), <<" ">>, Url(2)>>}

RoundTripNutritions ==
    SeqsUpTo({ <<label, value>> : label \in {<<"k">>, <<" ", "k">>},
                                  value \in {<<>>, <<"v">>} }, MaxEntries)

RoundTripBase(hero_images, nutrition) ==
    [ MakeProduct(<<"a">>, Url(1), <<"http://product/">>,
                  MakeDetail(<<"b">>, hero_images, nutrition, None))
        EXCEPT !.detail.description = <<"d">> ]

\* the records written: one text field of the base record takes each text
InitRoundTrip ==
    /\ IdleScripts
    /\ IdlePipe
    /\ IdleUpload
    /\ IdleOcr
    /\ IdleDedupe
    /\ IdleBarcode
    /\ c_pc = "call"
    /\ \E hero_images \in RoundTripHeroImages, nutrition \in RoundTripNutritions,
          text \in RoundTripTexts :
         \/ \E field \in ListingFields :
              c_in = [RoundTripBase(hero_images, nutrition) EXCEPT ![field] = text]
         \/ \E field \in DetailTextFields :
              c_in = [RoundTripBase(hero_images, nutrition) EXCEPT !.detail[field] = text]
    /\ c_out = <<>>

\* write_json_report, line 249
RoundTripSerialize ==
    /\ c_pc = "call"
    /\ c_out' = <<serialize_product_for_json(c_in)>>
    /\ c_pc' = "serialized"
    /\ UNCHANGED c_in
    /\ CallFrame

\* load_products_from_file, line 184
RoundTripDeserialize ==
    /\ c_pc = "serialized"
    /\ c_out' = <<deserialize_product(c_out[1])>>
    /\ c_pc' = "deserialized"
    /\ UNCHANGED c_in
    /\ CallFrame

NextRoundTrip ==
    \/ RoundTripSerialize
    \/ RoundTripDeserialize

SpecRoundTrip == InitRoundTrip /\ [][NextRoundTrip]_vars

RoundTripDone == c_pc = "deserialized"

\* a text as it is read back: trimmed, and absent when nothing is left
ReadBack(text) == IF text = None \/ strip(text) = <<>> THEN None ELSE strip(text)

NoImages(hero_images) == IF hero_images = None THEN <<>> ELSE hero_images

\* every text field of the record read back is the record's, read back
TextsReadBack ==
    /\ \A field \in ListingFields : c_out[1][field] = ReadBack(c_in[field])
    /\ \A field \in DetailTextFields :
         c_out[1].detail[field] = ReadBack(c_in.detail[field])

\* the images are the record's non-blank URLs, as they were
ImagesReadBack ==
    c_out[1].detail.hero_images =
        SelectSeq(NoImages(c_in.detail.hero_images), LAMBDA url : ReadBack(url) # None)

\* the nutrition pairs are the record's pairs with a label and a value that
\* are not blank, trimmed, in order
NutritionReadBack ==
    LET kept == SelectSeq(c_in.detail.nutrition,
                          LAMBDA e : ReadBack(e[1]) # None /\ ReadBack(e[2]) # None)
    IN  c_out[1].detail.nutrition =
            [i \in 1..Len(kept) |-> <<ReadBack(kept[i][1]), ReadBack(kept[i][2])>>]

\* a record whose texts are absent or trimmed and non-empty, whose images are
\* a list without blank URLs and whose nutrition pairs are trimmed and
\* non-empty
IsNormalizedRecord ==
    /\ \A field \in ListingFields : c_in[field] = ReadBack(c_in[field])
    /\ \A field \in DetailTextFields : c_in.detail[field] = ReadBack(c_in.detail[field])
    /\ c_in.detail.hero_images # None
    /\ \A i \in 1..Len(NoImages(c_in.detail.hero_images)) :
         ReadBack(c_in.detail.hero_images[i]) # None
    /\ \A i \in 1..Len(c_in.detail.nutrition) :
         /\ c_in.detail.nutrition[i][1] = ReadBack(c_in.detail.nutrition[i][1])
         /\ c_in.detail.nutrition[i][2] = ReadBack(c_in.detail.nutrition[i][2])

\* C21 (as amended): serialize_product_for_json followed by
\* deserialize_product gives the record back normalized: every text field
\* trimmed, and absent when it was absent, empty or blank; hero_images without
\* the blank URLs (an absent list as the empty list); nutrition without the
\* pairs whose label or value is empty or blank, the others trimmed and in
\* order.  A record that is already in this form comes back unchanged.
C21_RoundTripNormalizes ==
    RoundTripDone =>
        /\ TextsReadBack
        /\ ImagesReadBack
        /\ NutritionReadBack
        /\ IsNormalizedRecord => c_out[1] = c_in

\* a record with an error text and nutrition, already normalized, read back
C21_Witness ==
    /\ RoundTripDone
    /\ IsNormalizedRecord
    /\ c_in.detail.error # None
    /\ c_in.detail.nutrition # <<>>
    /\ c_in.detail.hero_images # <<>>

\* C21 as stated: the round trip preserves listing_name, listing_image,
\* product_link and all the detail fields of every product record (a record
\* without images counts as preserved by the empty list, and nutrition is
\* compared for the records whose pairs all have a label and a value).
C21_RoundTripPreserves ==
    RoundTripDone =>
        /\ \A field \in ListingFields : c_out[1][field] = c_in[field]
        /\ \A field \in DetailTextFields : c_out[1].detail[field] = c_in.detail[field]
        /\ c_out[1].detail.hero_images = NoImages(c_in.detail.hero_images)
        /\ (\A i \in 1..Len(c_in.detail.nutrition) :
                Truthy(c_in.detail.nutrition[i][1]) /\ Truthy(c_in.detail.nutrition[i][2]))
            => c_out[1].detail.nutrition = c_in.detail.nutrition

-----------------------------------------------------------------------------
(* Spec, continued: the products the registry holds                         *)

\* the listing name or the detail name of the record is in the registry
RecordInRegistry(rec, registry) ==
    \/ NameInRegistry(rec.listing_name, registry)
    \/ NameInRegistry(rec.detail.detail_name, registry)

\* the events that a step adds to the run
NewEvents == SubSeq(p_events', Len(p_events) + 1, Len(p_events'))

NewPosts == SubSeq(p_posts', Len(p_posts) + 1, Len(p_posts'))

\* whatever is done in a step is done for the product the loop is at
StepConcernsCurrentProduct ==
    /\ p_i' >= p_i
    /\ Len(p_events') >= Len(p_events)
    /\ Len(p_posts') >= Len(p_posts)
    /\ SubSeq(p_events', 1, Len(p_events)) = p_events
    /\ SubSeq(p_posts', 1, Len(p_posts)) = p_posts
    /\ \A k \in 1..Len(NewEvents) : NewEvents[k][1] = p_i + 1
    /\ \A k \in 1..Len(NewPosts) : NewPosts[k][1] = p_i + 1

\* the step that takes the next product of the loop, when the registry
\* holds the record built for it: the record goes to the results as it was
\* built, the loop moves on, and nothing else happens
SkipStep ==
    (p_pc = "loop" /\ p_i < Len(p_products)) =>
        LET rec == IF p_pc' = "barcode" THEN p_record'
                   ELSE p_combined_results'[Len(p_combined_results')]
        IN  RecordInRegistry(rec, p_existing_names) =>
                /\ p_i' = p_i + 1
                /\ p_pc' = "loop"
                /\ p_combined_results' = Append(p_combined_results, rec)
                /\ rec.listing_name = p_products[p_i + 1][1]
                /\ rec.listing_image = p_products[p_i + 1][2]
                /\ rec.product_link = p_products[p_i + 1][3]
                /\ rec.detail \in PipeDetails \cup {NoLinkDetail}
                /\ \A k \in 1..Len(NewEvents) : NewEvents[k][2] = "detail"
                /\ NewPosts = <<>>
                /\ b_pc' = "idle"
                /\ o_pc' = "idle"
                /\ p_existing_names' = p_existing_names

\* C22: a product that the registry already contains is not re-processed:
\* no barcode scan, no OCR call and no upload is run for it, its record is
\* left as the scrape built it, and it is still appended to the results
\* that go to the report.
C22_RegisteredProductNotReprocessed ==
    [][StepConcernsCurrentProduct /\ SkipStep]_vars

\* a run is over in which the registry held the detail name of a product
\* and not its listing name, and another product was scanned
C22_Witness ==
    /\ p_pc = "done"
    /\ \E k \in 1..Len(p_combined_results) :
         /\ ~NameInRegistry(p_combined_results[k].listing_name, p_existing_names)
         /\ NameInRegistry(p_combined_results[k].detail.detail_name, p_existing_names)
         /\ \A e \in 1..Len(p_events) : p_events[e][1] = k => p_events[e][2] = "detail"
         /\ p_report[1][k].detail.barcode = None
    /\ \E e \in 1..Len(p_events) : p_events[e][2] = "barcode"

\* the run failed as a whole: the listing scrape raised or gave no product,
\* or every product was handled and the report could not be written
PipelineFailed ==
    \/ ~ListingYielded
    \/ p_i = Len(p_products) /\ p_report = <<>>

\* C23: the exit code of main tells pipeline-level failures only.  main
\* returns 0 exactly when the report was written, however many products
\* failed detail scraping, OCR, barcode or upload, and it returns non-zero
\* only when the run as a whole failed.
C23_ExitCodeIsPipelineLevel ==
    /\ p_exit # <<>> <=> p_pc \in {"done", "failed"}
    /\ p_exit # <<>> => p_exit[1] \in {0, 1}
    /\ p_report # <<>> <=> p_exit = <<0>>
    /\ p_exit = <<1>> => PipelineFailed

\* main returned 0 for a run of two products of which the detail scrape of
\* one failed and the POST of the other failed
C23_Witness ==
    /\ p_exit = <<0>>
    /\ Len(p_report[1]) = 2
    /\ \E k \in 1..2 : p_report[1][k].detail.error = <<"detail scrape failed">>
    /\ \E k \in 1..Len(p_posts) : p_posts[k][2] = "http_error"

-----------------------------------------------------------------------------
(* dedupe_constituents_cleanup.py                                           *)
(* The database is the three tables the script touches: constituent is the  *)
(* set of CONSTITUENT_ID of the rows of CONSTITUENT, goal_weights the set   *)
(* of CONSTITUENT_ID that rows of CONSTITUENT_GOAL_WEIGHTS carry, and       *)
(* product_constituent gives, for every row of PRODUCT_CONSTITUENT, its     *)
(* CONSTITUENT_ID.                                                          *)

\* lines 113-122
RECURSIVE normalize_group_loop(_, _, _)
normalize_group_loop(ids, seen, normalized) ==
    IF ids = <<>> THEN normalized
    ELSE IF Head(ids) \in seen
         THEN normalize_group_loop(Tail(ids), seen, normalized)
         ELSE normalize_group_loop(Tail(ids), seen \cup {Head(ids)},
                                   Append(normalized, Head(ids)))

normalize_group(ids) == normalize_group_loop(ids, {}, <<>>)

\* lines 134-135
actionable_groups(lines) ==
    SelectSeq([i \in 1..Len(lines) |-> normalize_group(lines[i])],
              LAMBDA group : Len(group) >= 2)

\* line 137
RECURSIVE all_ids_of(_)
all_ids_of(actionable) ==
    IF actionable = <<>> THEN <<>> ELSE Head(actionable) \o all_ids_of(Tail(actionable))

\* line 138
protected_primary_ids_of(actionable) ==
    { actionable[i][1] : i \in 1..Len(actionable) }

\* lines 47-59
fetch_existing_ids(db, ids) ==
    IF ids = <<>> THEN {} ELSE { cid \in Range(ids) : cid \in db.constituent }

\* lines 103-110
constituent_exists(db, constituent_id) == constituent_id \in db.constituent

\* a bug the claims must exclude: the first IDs of the other groups are not
\* spared
duplicate_ids_without_protection(group, protected) ==
    SelectSeq(Tail(group), LAMBDA cid : cid # group[1])

\* lines 150-155
duplicate_ids_of(group, protected) ==
    SelectSeq(Tail(group), LAMBDA cid : cid # group[1] /\ cid \notin protected)

\* a bug the claims must exclude: only the rows of the first duplicate are
\* re-pointed
update_product_constituents_first_only(db, primary_id, duplicate_ids) ==
    IF duplicate_ids = <<>> THEN db
    ELSE [db EXCEPT !.product_constituent =
            [row \in DOMAIN @ |-> IF @[row] = duplicate_ids[1] THEN primary_id ELSE @[row]]]

\* lines 62-74
update_product_constituents(db, primary_id, duplicate_ids) ==
    IF duplicate_ids = <<>> THEN db
    ELSE [db EXCEPT !.product_constituent =
            [row \in DOMAIN @ |-> IF @[row] \in Range(duplicate_ids) THEN primary_id
                                  ELSE @[row]]]

\* lines 77-87
delete_goal_weights(db, duplicate_ids) ==
    IF duplicate_ids = <<>> THEN db
    ELSE [db EXCEPT !.goal_weights = @ \ Range(duplicate_ids)]

\* lines 90-100
delete_constituents(db, duplicate_ids) ==
    IF duplicate_ids = <<>> THEN db
    ELSE [db EXCEPT !.constituent = @ \ Range(duplicate_ids)]

\* a bug the claims must exclude: the connection commits every statement
connection_exit_autocommit(committed, db, raised) == db

\* line 141: leaving the block of "with psycopg2.connect(...) as conn" commits
\* the transaction, and rolls it back when an exception leaves the block
connection_exit(committed, db, raised) == IF raised THEN committed ELSE db

\* lines 134-142
CleanupStart ==
    /\ k_pc = "start"
    /\ LET actionable == actionable_groups(k_lines)
       IN  /\ k_actionable' = actionable
           /\ k_protected' = protected_primary_ids_of(actionable)
           /\ k_existing_ids' = fetch_existing_ids(k_db, all_ids_of(actionable))
    /\ k_pc' = "loop"
    /\ UNCHANGED <<k_lines, k_idx, k_duplicate_ids, k_db0, k_db, k_committed, k_ops>>
    /\ CleanupFrame

\* lines 149-157: every other ID of the group is the first ID of a group
CleanupNoDuplicates ==
    /\ k_pc = "loop"
    /\ k_idx < Len(k_actionable)
    /\ duplicate_ids_of(k_actionable[k_idx + 1], k_protected) = <<>>
    /\ k_idx' = k_idx + 1
    /\ UNCHANGED <<k_pc, k_lines, k_actionable, k_protected, k_existing_ids,
                   k_duplicate_ids, k_db0, k_db, k_committed, k_ops>>
    /\ CleanupFrame

\* lines 159-164: the first ID of the group is not in the database
CleanupPrimaryMissing ==
    /\ k_pc = "loop"
    /\ k_idx < Len(k_actionable)
    /\ LET group == k_actionable[k_idx + 1]
           primary_id == group[1]
       IN  /\ duplicate_ids_of(group, k_protected) # <<>>
           /\ primary_id \notin k_existing_ids \/ ~constituent_exists(k_db, primary_id)
    /\ k_idx' = k_idx + 1
    /\ UNCHANGED <<k_pc, k_lines, k_actionable, k_protected, k_existing_ids,
                   k_duplicate_ids, k_db0, k_db, k_committed, k_ops>>
    /\ CleanupFrame

\* lines 150-174 and 127: the group is processed, its UPDATE is executed
CleanupUpdate ==
    /\ k_pc = "loop"
    /\ k_idx < Len(k_actionable)
    /\ LET group == k_actionable[k_idx + 1]
           primary_id == group[1]
           duplicate_ids == duplicate_ids_of(group, k_protected)
       IN  /\ duplicate_ids # <<>>
           /\ primary_id \in k_existing_ids
           /\ constituent_exists(k_db, primary_id)
           /\ k_duplicate_ids' = duplicate_ids
           /\ k_db' = update_product_constituents(k_db, primary_id, duplicate_ids)
           /\ k_ops' = Append(k_ops, <<k_idx + 1, "update", primary_id, duplicate_ids>>)
    /\ k_pc' = "delete_goals"
    /\ UNCHANGED <<k_lines, k_actionable, k_protected, k_existing_ids, k_idx, k_db0,
                   k_committed>>
    /\ CleanupFrame

\* line 128
CleanupDeleteGoals ==
    /\ k_pc = "delete_goals"
    /\ k_db' = delete_goal_weights(k_db, k_duplicate_ids)
    /\ k_ops' = Append(k_ops, <<k_idx + 1, "delete_goals", k_actionable[k_idx + 1][1],
                                k_duplicate_ids>>)
    /\ k_pc' = "delete_constituents"
    /\ UNCHANGED <<k_lines, k_actionable, k_protected, k_existing_ids, k_idx,
                   k_duplicate_ids, k_db0, k_committed>>
    /\ CleanupFrame

\* lines 129-130 and 176-185
CleanupDeleteConstituents ==
    /\ k_pc = "delete_constituents"
    /\ k_db' = delete_constituents(k_db, k_duplicate_ids)
    /\ k_ops' = Append(k_ops, <<k_idx + 1, "delete_constituents",
                                k_actionable[k_idx + 1][1], k_duplicate_ids>>)
    /\ k_duplicate_ids' = <<>>
    /\ k_idx' = k_idx + 1
    /\ k_pc' = "loop"
    /\ UNCHANGED <<k_lines, k_actionable, k_protected, k_existing_ids, k_db0, k_committed>>
    /\ CleanupFrame

\* the connection, a query, a statement or the commit raises (the server
\* refuses a statement, the link to it breaks): the exception leaves the
\* with-block of line 141 and main
CleanupRaise ==
    /\ k_pc \in {"start", "loop", "delete_goals", "delete_constituents"}
    /\ k_committed' = connection_exit(k_committed, k_db, TRUE)
    /\ k_pc' = "rolled_back"
    /\ UNCHANGED <<k_lines, k_actionable, k_protected, k_existing_ids, k_idx,
                   k_duplicate_ids, k_db0, k_db, k_ops>>
    /\ CleanupFrame

\* lines 187-191: the loop is over, the with-block is left
CleanupCommit ==
    /\ k_pc = "loop"
    /\ k_idx >= Len(k_actionable)
    /\ k_committed' = connection_exit(k_committed, k_db, FALSE)
    /\ k_pc' = "committed"
    /\ UNCHANGED <<k_lines, k_actionable, k_protected, k_existing_ids, k_idx,
                   k_duplicate_ids, k_db0, k_db, k_ops>>
    /\ CleanupFrame

(* SpecCleanup: one run of main on a file of at most MaxLines lines.        *)

MaxLines == 2

ConstituentIds == {1, 2, 3}

ProductConstituentRows == {1, 2}

\* lines of the file: empty, one ID, an ID twice, pairs, and triples
CleanupLines ==
    { <<>>, <<1>>, <<2, 2>>, <<1, 2>>, <<2, 1>>, <<2, 3>>, <<3, 2>>, <<3, 1>>,
      <<1, 1, 2>>, <<1, 2, 3>> }

\* databases in which every row of the two other tables refers to a row of
\* CONSTITUENT
CleanupDatabases ==
    { db \in [ constituent : {ConstituentIds, {2, 3}, {1, 3}},
               goal_weights : SUBSET ConstituentIds,
               product_constituent : [ProductConstituentRows -> ConstituentIds] ] :
        /\ db.goal_weights \in {{}, db.constituent}
        /\ \A row \in ProductConstituentRows : db.product_constituent[row] \in db.constituent }

InitCleanup ==
    /\ IdleSaved
    /\ IdleCall
    /\ IdlePipe
    /\ IdleUpload
    /\ IdleOcr
    /\ IdleDedupe
    /\ IdleBarcode
    /\ k_pc = "start"
    /\ k_lines \in SeqsUpTo(CleanupLines, MaxLines)
    /\ k_actionable = <<>>
    /\ k_protected = {}
    /\ k_existing_ids = {}
    /\ k_idx = 0
    /\ k_duplicate_ids = <<>>
    /\ k_db0 \in CleanupDatabases
    /\ k_db = k_db0
    /\ k_committed = k_db0
    /\ k_ops = <<>>

NextCleanup ==
    \/ CleanupStart
    \/ CleanupNoDuplicates
    \/ CleanupPrimaryMissing
    \/ CleanupUpdate
    \/ CleanupDeleteGoals
    \/ CleanupDeleteConstituents
    \/ CleanupRaise
    \/ CleanupCommit

SpecCleanup == InitCleanup /\ [][NextCleanup]_vars

\* the first ID of a line and its other IDs
FirstId(line) == line[1]

OtherIds(line) == Range(line) \ {line[1]}

\* the lines that hold two different IDs at least
LinesWithDuplicates == { i \in 1..Len(k_lines) : Cardinality(Range(k_lines[i])) >= 2 }

\* the IDs that are the first of such a line
FirstIds == { FirstId(k_lines[i]) : i \in LinesWithDuplicates }

\* the other IDs of a line that are the first ID of no line
RemovableIds(i) == OtherIds(k_lines[i]) \ FirstIds

\* the lines the run acts on: the first ID is in the database and there is
\* an ID to remove
LinesActedOn ==
    { i \in LinesWithDuplicates :
        FirstId(k_lines[i]) \in k_db0.constituent /\ RemovableIds(i) # {} }

RemovedIds == UNION { RemovableIds(i) : i \in LinesActedOn }

\* the first ID of the first line acted on that lists the ID among its
\* other IDs
KeptIdFor(cid) ==
    LET first == CHOOSE i \in LinesActedOn :
                    /\ cid \in RemovableIds(i)
                    /\ \A j \in LinesActedOn : cid \in RemovableIds(j) => i <= j
    IN  FirstId(k_lines[first])

C25_SingleTransaction ==
    /\ k_pc \in {"start", "loop", "delete_goals", "delete_constituents", "rolled_back"}
          => k_committed = k_db0
    /\ k_pc = "committed" => k_idx = Len(k_actionable) /\ k_committed = k_db

\* a run that failed after it had re-pointed rows and deleted rows of one
\* group and re-pointed rows of the next
C25_Witness ==
    /\ k_pc = "rolled_back"
    /\ k_idx = 1
    /\ Len(k_ops) = 4
    /\ k_db.constituent # k_db0.constituent
    /\ k_db.product_constituent # k_db0.product_constituent

\* the rows of PRODUCT_CONSTITUENT that the run re-pointed
RepointedRows ==
    { row \in ProductConstituentRows :
        k_db.product_constituent[row] # k_db0.product_constituent[row] }

-----------------------------------------------------------------------------
(* run_pipeline of blinkit_saved_report_uploader.py, lines 223-256: one     *)
(* turn of the for-loop over the products loaded from the saved reports.    *)

\* a bug the claims must exclude: the barcode scan is run for every product
needs_barcode_always(args, detail_data) == TRUE

\* line 243
needs_barcode(args, detail_data) ==
    args.force_barcode \/ ~Truthy(detail_data.barcode)

\* line 248
needs_ocr(args, detail_data) ==
    args.force_ocr \/ ~Truthy(detail_data.ocr_text)

\* lines 245-246
set_barcode(detail_data, barcode_value) ==
    IF Truthy(barcode_value) THEN [detail_data EXCEPT !.barcode = barcode_value]
    ELSE detail_data

\* what run_barcode_on_images can return: None, or the value of a barcode
SavedBarcodeValues == {None, <<"9">>}

\* what run_ocr_on_images can return: the accepted texts, none of them empty
SavedOcrTexts == {<<>>, << <<"t">> >>, << <<"t">>, <<"u">> >>}

\* lines 232-235: the registry holds the product
SavedSkip ==
    /\ s_pc = "exists"
    /\ product_exists_in_registry(s_record, s_existing_names)
    /\ s_combined_results' = Append(s_combined_results, s_record)
    /\ s_pc' = "next"
    /\ UNCHANGED <<s_args, s_existing_names, s_loaded, s_record, s_calls>>
    /\ SavedFrame

\* lines 232, 237-246: the barcode scan is run on the images of the product
SavedBarcodeRun ==
    /\ s_pc = "exists"
    /\ ~product_exists_in_registry(s_record, s_existing_names)
    /\ needs_barcode(s_args, s_record.detail)
    /\ \E barcode_value \in SavedBarcodeValues :
         /\ s_calls' = Append(s_calls,
                <<"run_barcode_on_images",
                  collect_image_urls(s_record.listing_image, s_record.detail),
                  barcode_value>>)
         /\ s_record' = [s_record EXCEPT !.detail = set_barcode(@, barcode_value)]
    /\ s_pc' = "ocr"
    /\ UNCHANGED <<s_args, s_existing_names, s_loaded, s_combined_results>>
    /\ SavedFrame

\* lines 232, 237-243: the record has a barcode and --force-barcode is not set
SavedBarcodeKept ==
    /\ s_pc = "exists"
    /\ ~product_exists_in_registry(s_record, s_existing_names)
    /\ ~needs_barcode(s_args, s_record.detail)
    /\ s_pc' = "ocr"
    /\ UNCHANGED <<s_args, s_existing_names, s_loaded, s_record, s_calls,
                   s_combined_results>>
    /\ SavedFrame

\* lines 248-251: OCR is run on the images of the product
SavedOcrRun ==
    /\ s_pc = "ocr"
    /\ needs_ocr(s_args, s_record.detail)
    /\ \E ocr_texts \in SavedOcrTexts :
         /\ s_calls' = Append(s_calls,
                <<"run_ocr_on_images",
                  collect_image_urls(s_record.listing_image, s_record.detail),
                  ocr_texts>>)
         /\ s_record' = [s_record EXCEPT !.detail = set_ocr_text(@, ocr_texts)]
    /\ s_pc' = "upload"
    /\ UNCHANGED <<s_args, s_existing_names, s_loaded, s_combined_results>>
    /\ SavedFrame

\* line 248: the record has an ocr_text and --force-ocr is not set
SavedOcrKept ==
    /\ s_pc = "ocr"
    /\ ~needs_ocr(s_args, s_record.detail)
    /\ s_pc' = "upload"
    /\ UNCHANGED <<s_args, s_existing_names, s_loaded, s_record, s_calls,
                   s_combined_results>>
    /\ SavedFrame

\* lines 253-256
SavedUpload ==
    /\ s_pc = "upload"
    /\ s_combined_results' = Append(s_combined_results, s_record)
    /\ \E post \in {"ok", "http_error"} :
         LET r == upload_product_to_nutrisnap(s_record, s_existing_names,
                                              s_args.dry_run, post)
         IN  /\ s_existing_names' = r.registry
             /\ s_calls' = Append(s_calls,
                    <<"upload_product_to_nutrisnap", r.posted, r.ret>>)
    /\ s_pc' = "next"
    /\ UNCHANGED <<s_args, s_loaded, s_record>>
    /\ SavedFrame

(* SpecSaved: one product of a saved report, under any flags.               *)

\* records as deserialize_product gives them: texts are None or trimmed
SavedProducts ==
    { [ MakeProduct(name, image, <<"http://product/">>,
                    MakeDetail(<<"A">>, <<Url(2)>>, << <<<<"k">>, <<"v">>>> >>, None))
          EXCEPT !.detail.barcode = barcode, !.detail.ocr_text = ocr_text ] :
        name \in {<<"a">>, <<"b">>},
        image \in {None, Url(1)},
        barcode \in {None, <<"8">>},
        ocr_text \in {None, <<"o">>} }

InitSaved ==
    /\ IdleCleanup
    /\ IdleCall
    /\ IdlePipe
    /\ IdleUpload
    /\ IdleOcr
    /\ IdleDedupe
    /\ IdleBarcode
    /\ s_pc = "exists"
    /\ s_args \in [force_ocr : BOOLEAN, force_barcode : BOOLEAN, dry_run : BOOLEAN]
    /\ s_existing_names \in {{}, {<<"b">>}}
    /\ s_loaded \in SavedProducts
    /\ s_record = s_loaded
    /\ s_calls = <<>>
    /\ s_combined_results = <<>>

NextSaved ==
    \/ SavedSkip
    \/ SavedBarcodeRun
    \/ SavedBarcodeKept
    \/ SavedOcrRun
    \/ SavedOcrKept
    \/ SavedUpload

SpecSaved == InitSaved /\ [][NextSaved]_vars

\* the calls of the function made for the product
SavedCallsOf(function) == { n \in 1..Len(s_calls) : s_calls[n][1] = function }

\* what the one call of the function returned
SavedResultOf(function) ==
    s_calls[CHOOSE n \in SavedCallsOf(function) : TRUE][3]

\* the stage of the turn is over in which the function is called
BarcodeStageOver == s_pc \in {"ocr", "upload", "next"}

OcrStageOver == s_pc \in {"upload", "next"}

\* C26: in the saved-report uploader the barcode scan is run for a product
\* only when --force-barcode is set or the record has no barcode, and OCR
\* only when --force-ocr is set or the record has no ocr_text (and then
\* once, unless the registry holds the product); a saved barcode or
\* ocr_text is replaced only by a newly found non-empty value, the barcode
\* found or the texts found joined by a blank line, and is left as it was
\* in every other case.
C26_EnrichmentOnlyWhenForcedOrMissing ==
    /\ Cardinality(SavedCallsOf("run_barcode_on_images")) <= 1
    /\ Cardinality(SavedCallsOf("run_ocr_on_images")) <= 1
    /\ SavedCallsOf("run_barcode_on_images") # {}
          => s_args.force_barcode \/ s_loaded.detail.barcode \in {None, <<>>}
    /\ SavedCallsOf("run_ocr_on_images") # {}
          => s_args.force_ocr \/ s_loaded.detail.ocr_text \in {None, <<>>}
    /\ (BarcodeStageOver /\ ~RecordInRegistry(s_loaded, s_existing_names)
           /\ (s_args.force_barcode \/ s_loaded.detail.barcode = None))
          => SavedCallsOf("run_barcode_on_images") # {}
    /\ (OcrStageOver /\ ~RecordInRegistry(s_loaded, s_existing_names)
           /\ (s_args.force_ocr \/ s_loaded.detail.ocr_text = None))
          => SavedCallsOf("run_ocr_on_images") # {}
    /\ s_record.detail.barcode =
          IF SavedCallsOf("run_barcode_on_images") # {}
             /\ SavedResultOf("run_barcode_on_images") \notin {None, <<>>}
          THEN SavedResultOf("run_barcode_on_images")
          ELSE s_loaded.detail.barcode
    /\ s_record.detail.ocr_text =
          IF SavedCallsOf("run_ocr_on_images") # {}
             /\ SavedResultOf("run_ocr_on_images") # <<>>
          THEN JoinedByBlankLine(SavedResultOf("run_ocr_on_images"))
          ELSE s_loaded.detail.ocr_text
    /\ [s_record EXCEPT !.detail.barcode = None, !.detail.ocr_text = None]
          = [s_loaded EXCEPT !.detail.barcode = None, !.detail.ocr_text = None]

\* a product with a saved barcode and a saved ocr_text under --force-barcode
\* only: the scan found nothing, the barcode is the saved one, and OCR was
\* not run
C26_Witness ==
    /\ s_pc = "next"
    /\ s_args.force_barcode
    /\ ~s_args.force_ocr
    /\ s_loaded.detail.barcode = <<"8">>
    /\ s_loaded.detail.ocr_text = <<"o">>
    /\ SavedCallsOf("run_barcode_on_images") # {}
    /\ SavedResultOf("run_barcode_on_images") = None
    /\ SavedCallsOf("run_ocr_on_images") = {}
    /\ s_combined_results = <<s_loaded>>

-----------------------------------------------------------------------------
(* Spec, continued: the registry during a run                               *)

\* a name as the registry keeps names: not empty, trimmed, in lower case
IsNormalizedName(name) ==
    /\ IsStr(name)
    /\ name # <<>>
    /\ strip(name) = name
    /\ lower(name) = name

RegistryIsNormalized == \A name \in p_existing_names : IsNormalizedName(name)

RegistryGrows == p_existing_names \subseteq p_existing_names'

EventsFor(idx) == { p_events[e][2] : e \in { n \in 1..Len(p_events) : p_events[n][1] = idx } }

\* no barcode scan, no OCR and no POST for product number idx
NotProcessed(idx) ==
    /\ EventsFor(idx) \subseteq {"detail"}
    /\ PostsFor(idx) = {}

\* barcode scan, OCR and upload_product_to_nutrisnap were called for it
ProcessedNormally(idx) == {"barcode", "ocr", "upload"} \subseteq EventsFor(idx)

UploadedOk(idx) == \E k \in PostsFor(idx) : p_posts[k][2] = "ok"

\* the products the loop is done with
ProductsDone == 1..Len(p_combined_results) \ (IF p_pc = "upload" THEN {p_i + 1} ELSE {})

SharesName(j, k) ==
    NormalizedNames(p_combined_results[j]) \cap NormalizedNames(p_combined_results[k]) # {}

\* a later product that shares a name with a product uploaded before it
\* gets no barcode scan, no OCR and no POST
LaterDuplicateNotProcessed ==
    \A j, k \in ProductsDone :
        (j < k /\ UploadedOk(j) /\ SharesName(j, k)) => NotProcessed(k)

\* after the fetch the registry changes in one way only: a POST that
\* succeeded adds the names of the product POSTed
OnlySuccessfulUploadRecords ==
    (p_pc # "fetch_names" /\ p_existing_names' # p_existing_names) =>
        /\ NewPosts = << <<p_i + 1, "ok">> >>
        /\ p_existing_names' = p_existing_names \cup NormalizedNames(p_record)

\* a product none of whose names is in the registry is processed
UnregisteredProductIsProcessed ==
    (p_pc = "loop" /\ p_i < Len(p_products)) =>
        LET rec == IF p_pc' = "barcode" THEN p_record'
                   ELSE p_combined_results'[Len(p_combined_results')]
        IN  ~RecordInRegistry(rec, p_existing_names) =>
                /\ p_pc' = "barcode"
                /\ NewEvents # <<>>
                /\ NewEvents[Len(NewEvents)] = <<p_i + 1, "barcode">>

\* a product is skipped as a whole or processed as a whole
SkippedOrProcessed ==
    \A k \in ProductsDone : NotProcessed(k) \/ ProcessedNormally(k)

\* C28 (as amended): within one run, once a product has been uploaded
\* successfully, every later product one of whose normalized names is a
\* normalized name of the uploaded product gets no OCR, no barcode scan and
\* no POST.  An upload that failed or was skipped adds nothing to the
\* registry, so that a later product is processed normally unless the
\* registry holds one of its names for another reason: the name was
\* fetched, or recorded by another upload.
C28_DuplicateAfterUploadSkipped ==
    /\ [](LaterDuplicateNotProcessed /\ SkippedOrProcessed)
    /\ [][OnlySuccessfulUploadRecords /\ UnregisteredProductIsProcessed]_vars

\* a run of two products with a name in common and an empty registry at the
\* start: the first was uploaded, the second was not processed
C28_Witness ==
    /\ p_pc = "done"
    /\ Len(p_combined_results) = 2
    /\ SharesName(1, 2)
    /\ UploadedOk(1)
    /\ NotProcessed(2)
    /\ p_existing_names = NormalizedNames(p_combined_results[1])

\* C28 as stated: a later product that shares a name with an earlier one is
\* not processed when the earlier one was uploaded, and is processed
\* normally when the upload of the earlier one failed or was skipped.
C28_ProcessedUnlessEarlierUploaded ==
    \A j, k \in ProductsDone :
        (j < k /\ SharesName(j, k)) =>
            IF UploadedOk(j) THEN NotProcessed(k) ELSE ProcessedNormally(k)

-----------------------------------------------------------------------------
(* SpecOcrFair: run_ocr_on_images as a running program.  The interpreter    *)
(* goes on to the next statement as long as there is one, and every call    *)
(* the loop makes returns or raises (the requests carry timeouts).          *)

SpecOcrFair == SpecOcr /\ WF_vars(NextOcr)

\* control is back at the head of the while-loop after a turn of it
LoopTurnEnds == o_pc \in {"loop", "singles"} /\ o_pc' = "loop"

\* every turn of the loop moves idx forward, and never beyond the list
IdxStrictlyIncreases ==
    /\ o_idx' >= o_idx
    /\ o_idx' <= Len(o_unique_urls')
    /\ LoopTurnEnds => o_idx' > o_idx

\* the combined attempts whose batch holds the URL
CombinedAttemptsOn(url) == { i \in CombinedAttempts : url \in Range(o_calls[i][2]) }

\* the URL at place i of unique_urls was read by a combined attempt whose
\* text was accepted
CoveredByAcceptedBatch(i) ==
    /\ i <= 4 * (OcrN \div 4)
    /\ BatchAccepted((i - 1) \div 4)

\* every unique URL is in one batch, and is read once: by the accepted
\* combined attempt on its batch, or else by one per-image attempt
EachUrlReadOnce ==
    OcrReturned =>
        \A i \in 1..OcrN :
            LET url == o_unique_urls[i]
            IN  /\ Cardinality(CombinedAttemptsOn(url)) <= 1
                /\ Cardinality(SingleAttemptsOn({url})) <= 1
                /\ CoveredByAcceptedBatch(i) => Cardinality(CombinedAttemptsOn(url)) = 1
                /\ CoveredByAcceptedBatch(i) <=> Cardinality(SingleAttemptsOn({url})) = 0

\* C29: run_ocr_on_images always terminates.  The batch index strictly
\* increases on every turn of the loop whatever the combined attempt met,
\* each unique URL belongs to exactly one batch, and each URL is either
\* covered by one accepted combined OCR or receives exactly one per-image
\* OCR attempt, never both and never more than once.
C29_OcrTerminates ==
    /\ <>OcrReturned
    /\ [][IdxStrictlyIncreases]_vars
    /\ []EachUrlReadOnce

\* the call returned for nine URLs: the first batch was accepted, the
\* second fell back to its four images, the ninth URL was read alone
C29_Witness ==
    /\ OcrReturned
    /\ OcrN = 9
    /\ CoveredByAcceptedBatch(1)
    /\ ~CoveredByAcceptedBatch(5)
    /\ Cardinality(CombinedAttemptsOn(o_unique_urls[5])) = 1
    /\ Cardinality(SingleAttemptsOn({o_unique_urls[5]})) = 1
    /\ Cardinality(SingleAttemptsOn({o_unique_urls[9]})) = 1

====
